---- MODULE Spec2Model ----
(***************************************************************************)
(* RestFit: the request dispatch pipeline of a generated service method.   *)
(*                                                                         *)
(* One service instance owns one axios instance.  createSingleService      *)
(* installs on it, in this order, the retry interceptor (applyRetryPolicy),*)
(* the circuit breaker interceptors (applyCircuitBreakerPolicy) and the    *)
(* global response interceptors (applyResponseInterceptors).  A generated  *)
(* method dispatches through that instance and then runs the method-level  *)
(* interceptors and the success / error handler lookup.                    *)
(*                                                                         *)
(* The response side of the instance is a chain: retry, breaker, global.   *)
(* A retry re-dispatches the request through the same instance, so the     *)
(* rest of the chain of the level that retried continues with the outcome  *)
(* of the nested dispatch.  `level` is the depth of that nesting.          *)
(***************************************************************************)
EXTENDS Integers, Sequences, FiniteSets, TLC

\* ------------------------------------------------------------------ bounds
MaxRetries == 2
MaxCalls == 2
MaxTicks == 2
MaxRegistrations == 3

\* --------------------------------------------------------------- constants
\* A value an optional numeric field has when the caller left it out.
Undef == 0 - 1
\* The status of an error handler registered as catch-all (status === null).
Null == 0 - 2
\* The status of an error handler entry whose status is a function: what
\* @OnError(handler) passes where the status is expected.
FunctionStatus == 0 - 3

DefaultRetries == 3
DefaultThreshold == 5
DefaultWindow == 60000
DefaultTimeout == 30000
DefaultMinimumRequests == 10
DefaultRetryDelay == 100
DefaultRetryDelayMax == 2000
DefaultMultiplier == 2
DefaultRetryableStatusCodes == {408, 429, 500, 502, 503, 504}
DefaultErrorStatusCodes == {500, 502, 503, 504}

\* Statuses the transport can answer with; 0 stands for "no response".
TransportStatuses == {0, 200, 404, 429, 503}

\* ------------------------------------------------------ responses, errors
\* A response: status, data and, of its headers, retry-after: the header's
\* value as a string of digits, empty when the response carries none.
Resp(s, d) == [status |-> s, data |-> d, retryAfter |-> <<>>]
NoResp == Resp(0, "none")
RetryAfter(r, value) == [r EXCEPT !.retryAfter = value]

\* extendResponse(...).isSuccessStatusCode
isSuccessStatusCode(r) == r.status >= 200 /\ r.status < 300

\* An error travelling through the chain.  id: the transport attempt that
\* raised it (0: raised by the breaker's fast-fail); axios: isAxiosError;
\* hasConfig: error.config is set; hasResp: error.response is set.
Err(id, axios, hasConfig, hasResp, resp) ==
  [id |-> id, axios |-> axios, hasConfig |-> hasConfig, hasResp |-> hasResp, resp |-> resp]
NoErr == Err(0 - 1, FALSE, FALSE, FALSE, NoResp)

Fulfilled(r) == [ok |-> TRUE, resp |-> r, err |-> NoErr]
Rejected(e) == [ok |-> FALSE, resp |-> NoResp, err |-> e]

\* What the transport produces for one attempt.
TransportOutcome(status, attempt) ==
  IF status >= 200 /\ status < 300
  THEN Fulfilled(Resp(status, "payload"))
  ELSE IF status = 0
       THEN Rejected(Err(attempt, TRUE, TRUE, FALSE, NoResp))
       ELSE Rejected(Err(attempt, TRUE, TRUE, TRUE, Resp(status, "body")))

\* The retry-after headers a response of a status can carry: a 429 comes
\* with or without one.
RetryAfterHeaders(status) == IF status = 429 THEN {<<>>, <<"3">>} ELSE {<<>>}

\* The outcome of an attempt with the retry-after header of its response.
withRetryAfter(outcome, value) ==
  IF outcome.ok \/ ~outcome.err.hasResp THEN outcome
  ELSE [outcome EXCEPT !.err.resp = RetryAfter(@, value)]

\* The error the breaker rejects a request with while it is open: a plain
\* error, without config and without response, that is no axios error.
CircuitOpenError == Err(0, FALSE, FALSE, FALSE, NoResp)

\* ---------------------------------------------------------------- policies
\* A sub-policy is `false`, left out ("unset") or an object.  An optional
\* number left out of an object is Undef, an optional list {Undef}, an
\* optional flag "unset", an optional function "none".
\* exponentialBackoff is a boolean or a number, or left out.
ExpUnset == [kind |-> "undefined", value |-> 0]
ExpBool(b) == [kind |-> "boolean", value |-> IF b THEN 1 ELSE 0]
ExpNum(n) == [kind |-> "number", value |-> n]

\* A retry policy object with its delay options left out.
RetryObj(retries, codes, net, sr) ==
  [kind |-> "object", retries |-> retries, retryableStatusCodes |-> codes,
   retryOnNetworkError |-> net, shouldRetry |-> sr,
   retryDelay |-> Undef, retryDelayMax |-> Undef, exponentialBackoff |-> ExpUnset,
   retryDelayFn |-> "none"]

\* The retry policy object with its delay options given.
Delays(policy, retryDelay, retryDelayMax, exponentialBackoff, retryDelayFn) ==
  [policy EXCEPT !.retryDelay = retryDelay, !.retryDelayMax = retryDelayMax,
                 !.exponentialBackoff = exponentialBackoff, !.retryDelayFn = retryDelayFn]
RetryFalse == [RetryObj(Undef, {Undef}, "unset", "none") EXCEPT !.kind = "false"]
RetryUnset == [RetryObj(Undef, {Undef}, "unset", "none") EXCEPT !.kind = "unset"]

BreakerObj(enabled, threshold, window, timeout, minimumRequests, codes) ==
  [kind |-> "object", enabled |-> enabled, threshold |-> threshold, window |-> window,
   timeout |-> timeout, minimumRequests |-> minimumRequests, errorStatusCodes |-> codes,
   isFailure |-> "none"]
\* The breaker policy object with its isFailure given.
IsFailure(policy, isFailure) == [policy EXCEPT !.isFailure = isFailure]
BreakerFalse == [BreakerObj("unset", Undef, Undef, Undef, Undef, {Undef}) EXCEPT !.kind = "false"]
BreakerUnset == [BreakerObj("unset", Undef, Undef, Undef, Undef, {Undef}) EXCEPT !.kind = "unset"]

DEFAULT_RESILIENCE_POLICY ==
  [retry |-> Delays(RetryObj(3, {408, 429, 500, 502, 503, 504}, "true", "none"),
                    100, 2000, ExpBool(TRUE), "none"),
   circuitBreaker |-> BreakerObj("true", 5, 60000, 30000, 10, {500, 502, 503, 504})]

\* ------------------------------------------------------------ retry policy
\* A caller's shouldRetry.  "rateLimitOrNetwork" is the one of the samples:
\* always retry a 429, retry a failure without response while fewer than two
\* retries were made, retry nothing else.
customShouldRetry(sr, error, retryCount) ==
  IF sr = "rateLimitOrNetwork"
  THEN IF error.hasResp /\ error.resp.status = 429 THEN TRUE
       ELSE IF ~error.hasResp THEN retryCount < 2
       ELSE FALSE
  ELSE FALSE

\* retries, one too many.
retriesPlusOne(policy) == IF policy.retries = Undef THEN DefaultRetries ELSE policy.retries + 1

\* retries, one too few.
retriesLess(policy) == IF policy.retries = Undef THEN DefaultRetries ELSE policy.retries - 1

\* retryConfig.retries
retries(policy) == IF policy.retries = Undef THEN DefaultRetries ELSE policy.retries

\* The retry condition retrying every failure without response, whatever
\* retryOnNetworkError says.
retryConditionNetworkAlways(policy, error, retryCount) ==
  IF policy.shouldRetry # "none"
  THEN customShouldRetry(policy.shouldRetry, error, retryCount)
  ELSE LET retryableStatusCodes ==
             IF policy.retryableStatusCodes = {Undef}
             THEN DefaultRetryableStatusCodes
             ELSE policy.retryableStatusCodes
       IN IF ~error.hasResp \/ error.resp.status = 0
          THEN TRUE
          ELSE error.hasResp /\ error.resp.status \in retryableStatusCodes

\* The retry condition handing shouldRetry the number of the retry to come.
retryConditionOneBased(policy, error, retryCount) ==
  IF policy.shouldRetry # "none"
  THEN customShouldRetry(policy.shouldRetry, error, retryCount + 1)
  ELSE LET retryableStatusCodes ==
             IF policy.retryableStatusCodes = {Undef}
             THEN DefaultRetryableStatusCodes
             ELSE policy.retryableStatusCodes
       IN IF policy.retryOnNetworkError # "false" /\ (~error.hasResp \/ error.resp.status = 0)
          THEN TRUE
          ELSE error.hasResp /\ error.resp.status \in retryableStatusCodes

\* retryConfig.retryCondition; retryCount is the count axios-retry keeps in
\* error.config['axios-retry'].
retryCondition(policy, error, retryCount) ==
  IF policy.shouldRetry # "none"
  THEN customShouldRetry(policy.shouldRetry, error, retryCount)
  ELSE LET retryableStatusCodes ==
             IF policy.retryableStatusCodes = {Undef}
             THEN DefaultRetryableStatusCodes
             ELSE policy.retryableStatusCodes
       IN IF policy.retryOnNetworkError # "false" /\ (~error.hasResp \/ error.resp.status = 0)
          THEN TRUE
          ELSE IF error.hasResp /\ error.resp.status \in retryableStatusCodes
               THEN TRUE
               ELSE FALSE

\* The retry interceptor's decision for a rejected dispatch (axios-retry): an
\* error without config is passed on; otherwise a retry is made while fewer
\* than `retries` were made and the retry condition accepts the error.
shouldRetry(policy, error, retryCount) ==
  /\ error.hasConfig
  /\ retryCount < retries(policy)
  /\ retryCondition(policy, error, retryCount)

\* Math.pow on natural numbers.
RECURSIVE pow(_, _)
pow(b, n) == IF n = 0 THEN 1 ELSE b * pow(b, n - 1)

\* Math.min
min(a, b) == IF a <= b THEN a ELSE b

Digit == <<"0", "1", "2", "3", "4", "5", "6", "7", "8", "9">>

\* parseInt of a string of digits.
RECURSIVE parseInt(_)
parseInt(s) ==
  IF s = <<>> THEN 0
  ELSE 10 * parseInt(SubSeq(s, 1, Len(s) - 1))
       + ((CHOOSE i \in 1..10 : Digit[i] = s[Len(s)]) - 1)

\* A caller's retryDelayFn.  "backoffFrom100" is the one of the samples: for
\* a 429 whose response carries a retry-after header that many seconds, else
\* 100 * 2^retryCount.
customRetryDelayFn(fn, retryCount, error) ==
  IF fn = "backoffFrom100"
  THEN IF error.hasResp /\ error.resp.status = 429 /\ error.resp.retryAfter # <<>>
       THEN parseInt(error.resp.retryAfter) * 1000
       ELSE 100 * pow(2, retryCount)
  ELSE 0

\* The delay without the cap of retryDelayMax.
retryDelayUncapped(policy, retryCount, error) ==
  IF policy.retryDelayFn # "none"
  THEN customRetryDelayFn(policy.retryDelayFn, retryCount, error)
  ELSE LET base == IF policy.retryDelay = Undef THEN DefaultRetryDelay ELSE policy.retryDelay
           e == policy.exponentialBackoff
           truthy == e.kind # "undefined" /\ e.value # 0
           multiplier == IF e.kind = "number" THEN e.value ELSE DefaultMultiplier
       IN IF truthy THEN base * pow(multiplier, retryCount) ELSE base

\* The delay with the multiplier applied once per retry instead of as a power.
retryDelayLinear(policy, retryCount, error) ==
  IF policy.retryDelayFn # "none"
  THEN customRetryDelayFn(policy.retryDelayFn, retryCount, error)
  ELSE LET base == IF policy.retryDelay = Undef THEN DefaultRetryDelay ELSE policy.retryDelay
           e == policy.exponentialBackoff
           truthy == e.kind # "undefined" /\ e.value # 0
           multiplier == IF e.kind = "number" THEN e.value ELSE DefaultMultiplier
           delay == IF truthy THEN base * multiplier * retryCount ELSE base
           maxDelay == IF policy.retryDelayMax = Undef THEN DefaultRetryDelayMax
                       ELSE policy.retryDelayMax
       IN min(delay, maxDelay)

\* retryConfig.retryDelay: retryDelayFn if given; else retryDelay, multiplied
\* by multiplier^retryCount when exponentialBackoff is truthy, capped by
\* retryDelayMax.
retryDelay(policy, retryCount, error) ==
  IF policy.retryDelayFn # "none"
  THEN customRetryDelayFn(policy.retryDelayFn, retryCount, error)
  ELSE LET base == IF policy.retryDelay = Undef THEN DefaultRetryDelay ELSE policy.retryDelay
           e == policy.exponentialBackoff
           truthy == e.kind # "undefined" /\ e.value # 0
           multiplier == IF e.kind = "number" THEN e.value ELSE DefaultMultiplier
           delay == IF truthy THEN base * pow(multiplier, retryCount) ELSE base
           maxDelay == IF policy.retryDelayMax = Undef THEN DefaultRetryDelayMax
                       ELSE policy.retryDelayMax
       IN min(delay, maxDelay)

\* The count the retry interceptor hands retryDelay for the retry that
\* follows retryCount earlier ones: the number of that retry.
delayRetryCount(retryCount) == retryCount + 1

\* The onRetry callback handed to the retry interceptor: it writes the retry
\* count, the policy's retries and the error's request to the console.  It is
\* the only receiver of the notification; the generated service reads no
\* retry hook from a method's metadata.
onRetry(policy, retryCount, error) ==
  [receiver |-> "console.log", retryCount |-> retryCount, retries |-> retries(policy),
   error |-> error.id]

\* applyResilience: the retry policy installed on the instance, if any.
installedRetry(resilience) ==
  IF resilience.retry.kind = "false" THEN RetryFalse
  ELSE IF resilience.retry.kind = "unset" THEN DEFAULT_RESILIENCE_POLICY.retry
  ELSE resilience.retry

\* ---------------------------------------------------------- circuit breaker
\* The option mapping with window and timeout taken for one another.
circuitBreakerOptionsSwapped(policy) ==
  [thresholdPeriodMs |-> IF policy.timeout = Undef THEN DefaultTimeout ELSE policy.timeout,
   numRequestsToCloseCircuit |-> IF policy.threshold = Undef THEN DefaultThreshold ELSE policy.threshold,
   resetPeriodMs |-> IF policy.window = Undef THEN DefaultWindow ELSE policy.window,
   isFailure |-> policy.isFailure,
   errorStatusCodes |-> IF policy.errorStatusCodes = {Undef} THEN DefaultErrorStatusCodes
                        ELSE policy.errorStatusCodes]

\* The options applyCircuitBreakerPolicy hands to the breaker; isFailure and
\* errorStatusCodes are what its isFault is made of.
circuitBreakerOptions(policy) ==
  [thresholdPeriodMs |-> IF policy.window = Undef THEN DefaultWindow ELSE policy.window,
   numRequestsToCloseCircuit |-> IF policy.threshold = Undef THEN DefaultThreshold ELSE policy.threshold,
   resetPeriodMs |-> IF policy.timeout = Undef THEN DefaultTimeout ELSE policy.timeout,
   isFailure |-> policy.isFailure,
   errorStatusCodes |-> IF policy.errorStatusCodes = {Undef} THEN DefaultErrorStatusCodes
                        ELSE policy.errorStatusCodes]

\* A caller's isFailure.  "serverOrNetwork" is the one of the samples: a
\* response of status 500 or above, or no response.
customIsFailure(fn, error) ==
  IF fn = "serverOrNetwork"
  THEN (error.hasResp /\ error.resp.status >= 500) \/ ~error.hasResp
  ELSE FALSE

\* The classification without its branch for an error that has no response.
isFaultStatusOnly(options, error) ==
  IF options.isFailure # "none"
  THEN customIsFailure(options.isFailure, error)
  ELSE error.hasResp /\ error.resp.status \in options.errorStatusCodes

\* circuitBreakerOptions.isFault: the policy's isFailure if given, else the
\* default classification of an error.
isFault(options, error) ==
  IF options.isFailure # "none"
  THEN customIsFailure(options.isFailure, error)
  ELSE IF error.hasResp /\ error.resp.status # 0
       THEN error.resp.status \in options.errorStatusCodes
       ELSE ~error.hasResp

\* applyResilience / applyCircuitBreakerPolicy: the breaker policy whose
\* interceptors are installed; none when the sub-policy is false or when its
\* `enabled` is not truthy.
breakerPolicy(resilience) ==
  IF resilience.circuitBreaker.kind = "unset"
  THEN DEFAULT_RESILIENCE_POLICY.circuitBreaker
  ELSE resilience.circuitBreaker

breakerInstalled(resilience) ==
  /\ resilience.circuitBreaker.kind # "false"
  /\ breakerPolicy(resilience).enabled = "true"

\* CircuitState
CircuitInit == [phase |-> "Closed", windowStart |-> 0, failureCount |-> 0,
                requestCount |-> 0, openedAt |-> Undef]

\* Before a dispatch: an open breaker whose reset period has not elapsed
\* rejects the request; once it has elapsed the breaker goes half-open and
\* the request passes.
cbRejects(options, st, t) ==
  st.phase = "Open" /\ t - st.openedAt < options.resetPeriodMs

cbOnRequest(options, st, t) ==
  IF st.phase = "Open" /\ ~cbRejects(options, st, t)
  THEN [st EXCEPT !.phase = "HalfOpen"]
  ELSE st

\* A closed breaker opens once the failures counted in the window reach the
\* threshold.  The options carry no minimum number of requests.
cbTrips(options, st) == st.failureCount >= options.numRequestsToCloseCircuit

\* The completion of a dispatch counting a failure as a failure only, not as
\* a request.
cbOnOutcomeFailuresOnly(options, st, t, failed) ==
  IF st.phase = "Open" THEN st
  ELSE IF st.phase = "HalfOpen"
       THEN IF failed
            THEN [st EXCEPT !.phase = "Open", !.openedAt = t, !.failureCount = @ + 1]
            ELSE [CircuitInit EXCEPT !.windowStart = t]
       ELSE LET w == IF t - st.windowStart >= options.thresholdPeriodMs
                     THEN [st EXCEPT !.windowStart = t, !.failureCount = 0, !.requestCount = 0]
                     ELSE st
                c == [w EXCEPT !.requestCount = IF failed THEN @ ELSE @ + 1,
                               !.failureCount = IF failed THEN @ + 1 ELSE @]
            IN IF cbTrips(options, c)
               THEN [c EXCEPT !.phase = "Open", !.openedAt = t]
               ELSE c

\* On the completion of a dispatch, `failed` being its classification.
cbOnOutcome(options, st, t, failed) ==
  IF st.phase = "Open" THEN st
  ELSE IF st.phase = "HalfOpen"
       THEN IF failed
            THEN [st EXCEPT !.phase = "Open", !.openedAt = t,
                            !.requestCount = @ + 1, !.failureCount = @ + 1]
            ELSE [CircuitInit EXCEPT !.windowStart = t]
       ELSE LET w == IF t - st.windowStart >= options.thresholdPeriodMs
                     THEN [st EXCEPT !.windowStart = t, !.failureCount = 0, !.requestCount = 0]
                     ELSE st
                c == [w EXCEPT !.requestCount = @ + 1,
                               !.failureCount = IF failed THEN @ + 1 ELSE @]
            IN IF cbTrips(options, c)
               THEN [c EXCEPT !.phase = "Open", !.openedAt = t]
               ELSE c

\* ------------------------------------------------------------- interceptors
\* What an interceptor handler returns: nothing, or a replacement response.
Nothing == [some |-> FALSE, resp |-> NoResp]
Replace(r) == [some |-> TRUE, resp |-> r]

\* The handlers callers register (ResponseInterceptorConfig.handler and
\* @ResponseInterceptor): "observe" only looks; "notFoundToOk" turns a 404
\* into a 200 carrying its own payload; "stamp" rewrites the payload and
\* keeps the status; "okToError" replaces a 2xx response by a 500.
interceptorHandler(ic, r) ==
  IF ic = "notFoundToOk"
  THEN IF r.status = 404 THEN Replace(Resp(200, "converted")) ELSE Nothing
  ELSE IF ic = "stamp"
  THEN Replace(Resp(r.status, "stamped"))
  ELSE IF ic = "okToError"
  THEN IF isSuccessStatusCode(r) THEN Replace(Resp(500, "rewritten")) ELSE Nothing
  ELSE Nothing

\* The loop over the interceptors on the success path: every handler runs,
\* a returned response becomes the current one.
RECURSIVE runFulfilled(_, _)
runFulfilled(interceptors, r) ==
  IF interceptors = <<>> THEN r
  ELSE LET result == interceptorHandler(Head(interceptors), r)
       IN runFulfilled(Tail(interceptors), IF result.some THEN result.resp ELSE r)

\* The loop on the failure path: it stops at the first returned response
\* whose status is 2xx.  promoted: the loop stopped that way.
RECURSIVE runRejected(_, _)
runRejected(interceptors, r) ==
  IF interceptors = <<>> THEN [promoted |-> FALSE, resp |-> r]
  ELSE LET result == interceptorHandler(Head(interceptors), r)
       IN IF result.some
          THEN IF isSuccessStatusCode(result.resp)
               THEN [promoted |-> TRUE, resp |-> result.resp]
               ELSE runRejected(Tail(interceptors), result.resp)
          ELSE runRejected(Tail(interceptors), r)

\* The response an error is intercepted as: its own, or a synthetic one of
\* status 0 carrying the error's message.
responseToIntercept(error) ==
  IF error.hasResp THEN error.resp ELSE Resp(0, "message")

\* applyResponseInterceptors: the pair of handlers installed on the instance.
globalOnFulfilled(interceptors, r) == Fulfilled(runFulfilled(interceptors, r))

globalOnRejected(interceptors, error) ==
  LET run == runRejected(interceptors, responseToIntercept(error))
  IN IF run.promoted
     THEN Fulfilled(run.resp)
     ELSE Rejected([error EXCEPT !.hasResp = TRUE, !.resp = run.resp])

\* One invocation of an interceptor: the chain (global or method), the pass
\* of that chain within the call, the path the pass ran on, the interceptor's
\* place in its list and the response it was called with.
Invocation(scope, pass, path, index, ic, r) ==
  [scope |-> scope, pass |-> pass, path |-> path, index |-> index, ic |-> ic, input |-> r]

\* The success-path loop with every interceptor handed the response the loop
\* started with.
RECURSIVE invocationsFulfilledOriginal(_, _, _, _, _)
invocationsFulfilledOriginal(scope, pass, interceptors, r, i) ==
  IF i > Len(interceptors) THEN <<>>
  ELSE <<Invocation(scope, pass, "success", i, interceptors[i], r)>>
       \o invocationsFulfilledOriginal(scope, pass, interceptors, r, i + 1)

\* The calls the success-path loop makes, from the i-th interceptor on with
\* r the current response.
RECURSIVE invocationsFulfilled(_, _, _, _, _)
invocationsFulfilled(scope, pass, interceptors, r, i) ==
  IF i > Len(interceptors) THEN <<>>
  ELSE LET result == interceptorHandler(interceptors[i], r)
       IN <<Invocation(scope, pass, "success", i, interceptors[i], r)>>
          \o invocationsFulfilled(scope, pass, interceptors,
                                  IF result.some THEN result.resp ELSE r, i + 1)

\* The calls the failure-path loop makes: none after a returned 2xx response.
RECURSIVE invocationsRejected(_, _, _, _, _)
invocationsRejected(scope, pass, interceptors, r, i) ==
  IF i > Len(interceptors) THEN <<>>
  ELSE LET result == interceptorHandler(interceptors[i], r)
       IN <<Invocation(scope, pass, "failure", i, interceptors[i], r)>>
          \o IF result.some /\ isSuccessStatusCode(result.resp)
             THEN <<>>
             ELSE invocationsRejected(scope, pass, interceptors,
                                      IF result.some THEN result.resp ELSE r, i + 1)

\* The interceptor calls of one pass over a settled dispatch.
invocations(scope, pass, interceptors, outcome) ==
  IF outcome.ok
  THEN invocationsFulfilled(scope, pass, interceptors, outcome.resp, 1)
  ELSE invocationsRejected(scope, pass, interceptors, responseToIntercept(outcome.err), 1)

\* ----------------------------------------------------------------- handlers
\* An @OnError entry: status is a number or Null.  An @OnSuccess entry: status
\* is a set of numbers.
RECURSIVE pushEach(_, _, _)
pushEach(errors, statuses, handler) ==
  IF statuses = <<>> THEN errors
  ELSE pushEach(Append(errors, [status |-> Head(statuses), handler |-> handler]),
                Tail(statuses), handler)

\* @OnError starting from an empty list instead of the registered one.
OnErrorOverwrite(errors, status, handler) == pushEach(<<>>, status, handler)

\* @OnError(status, handler); status: <<Null>>, <<n>> or a list of numbers.
OnError(errors, status, handler) == pushEach(errors, status, handler)

\* @OnError(handler): the decorator called with one argument, which binds the
\* function to `status` and leaves `handler` undefined.
OnErrorStatusless(errors, handler) == OnError(errors, <<FunctionStatus>>, "undefined")

\* @OnSuccess(status, handler); status: a set of numbers.
OnSuccess(successes, status, handler) ==
  Append(successes, [status |-> status, handler |-> handler])

\* @ResponseInterceptor(handler)
ResponseInterceptor(interceptors, handler) == Append(interceptors, handler)

\* The predicate without its rule for status 0.
errorHandlerMatchesNoZeroRule(h, status) ==
  IF h.status = Null THEN TRUE ELSE h.status = status

\* The predicate of the error handler lookup.
errorHandlerMatches(h, status) ==
  IF h.status = Null THEN TRUE
  ELSE IF status = 0 THEN h.status = Null
  ELSE h.status = status

\* errorHandlers.find: the index of the first handler the predicate accepts,
\* or 0.
findErrorHandler(errorHandlers, status) ==
  LET found == {i \in 1..Len(errorHandlers) : errorHandlerMatches(errorHandlers[i], status)}
  IN IF found = {} THEN 0 ELSE CHOOSE i \in found : \A j \in found : i <= j

\* The predicate comparing the whole matcher with the status.
successHandlerMatchesEquality(h, status) == h.status = {status}

\* The predicate of the success handler lookup.
successHandlerMatches(h, status) == status \in h.status

\* successHandlers.find: the index of the first handler the predicate
\* accepts, or 0.
findSuccessHandler(successHandlers, status) ==
  LET found == {i \in 1..Len(successHandlers) : successHandlerMatches(successHandlers[i], status)}
  IN IF found = {} THEN 0 ELSE CHOOSE i \in found : \A j \in found : i <= j

\* ------------------------------------------------------ the generated method
\* How an invocation settles.  via: raw (the payload), success (a success
\* handler's result for `data`), promoted (the data of a response a
\* method-level interceptor turned 2xx), error (an error handler's result for
\* `err`), throw.  index: the handler's place in its list; status: the final
\* status the lookup ran on; invoked: the handlers called, in order.
NoResult == [kind |-> "none", via |-> "none", handler |-> "none", index |-> 0,
             status |-> 0, data |-> "none", err |-> NoErr, invoked |-> <<>>]
Resolved(via, handler, index, status, data, error) ==
  [kind |-> "resolved", via |-> via, handler |-> handler, index |-> index,
   status |-> status, data |-> data, err |-> error,
   invoked |-> IF handler = "none" THEN <<>> ELSE <<handler>>]
Thrown(status, error) ==
  [kind |-> "rejected", via |-> "throw", handler |-> "none", index |-> 0,
   status |-> status, data |-> "none", err |-> error, invoked |-> <<>>]

\* The try block after the dispatch resolved: method-level interceptors, then
\* the success handler lookup on the final status.
\* What a handler that fails throws: a plain Error, or an AxiosError of a
\* request the handler made itself.
ThrowingHandlers == {"throwsError", "throwsAxiosError"}
thrownBy(handler) ==
  IF handler = "throwsAxiosError"
  THEN Err(91, TRUE, TRUE, TRUE, Resp(404, "nested"))
  ELSE Err(90, FALSE, FALSE, FALSE, NoResp)

\* The catch block without its final throw: an unhandled error resolves.
onDispatchRejectedSwallow(method, error) ==
  IF error.axios
  THEN LET run == runRejected(method.responseInterceptors, responseToIntercept(error))
           i == findErrorHandler(method.errorHandlers, run.resp.status)
       IN IF run.promoted
          THEN Resolved("promoted", "none", 0, run.resp.status, run.resp.data, NoErr)
          ELSE IF i # 0
               THEN Resolved("error", method.errorHandlers[i].handler, i, run.resp.status, "none", error)
               ELSE Resolved("raw", "none", 0, run.resp.status, "none", NoErr)
  ELSE Thrown(0, error)

\* The catch block: an axios error goes through the method-level interceptors
\* (a 2xx replacement returns its data) and then the error handler lookup;
\* anything else, and an error no handler matches, is thrown again.
onDispatchRejected(method, error) ==
  IF error.axios
  THEN LET run == runRejected(method.responseInterceptors, responseToIntercept(error))
           i == findErrorHandler(method.errorHandlers, run.resp.status)
       IN IF run.promoted
          THEN Resolved("promoted", "none", 0, run.resp.status, run.resp.data, NoErr)
          ELSE IF i # 0
               THEN IF method.errorHandlers[i].handler \in ThrowingHandlers
                    THEN [Thrown(run.resp.status, thrownBy(method.errorHandlers[i].handler))
                            EXCEPT !.invoked = <<method.errorHandlers[i].handler>>]
                    ELSE Resolved("error", method.errorHandlers[i].handler, i,
                                  run.resp.status, "none", error)
               ELSE Thrown(run.resp.status, error)
  ELSE Thrown(0, error)

\* The try block treating a final status outside 2xx as a failed request.
onDispatchFulfilledValidated(method, r) ==
  LET response == runFulfilled(method.responseInterceptors, r)
      i == findSuccessHandler(method.successHandlers, response.status)
  IN IF ~isSuccessStatusCode(response)
     THEN onDispatchRejected(method, Err(92, TRUE, TRUE, TRUE, response))
     ELSE IF i # 0
     THEN Resolved("success", method.successHandlers[i].handler, i, response.status,
                   response.data, NoErr)
     ELSE Resolved("raw", "none", 0, response.status, response.data, NoErr)

\* The try block after the dispatch resolved: the method-level interceptors,
\* then the success handler lookup.  The handler runs inside the try block,
\* so what it throws is caught by the catch block.
onDispatchFulfilled(method, r) ==
  LET response == runFulfilled(method.responseInterceptors, r)
      i == findSuccessHandler(method.successHandlers, response.status)
  IN IF i # 0
     THEN IF method.successHandlers[i].handler \in ThrowingHandlers
          THEN [onDispatchRejected(method, thrownBy(method.successHandlers[i].handler))
                  EXCEPT !.invoked = <<method.successHandlers[i].handler>> \o @]
          ELSE Resolved("success", method.successHandlers[i].handler, i, response.status,
                        response.data, NoErr)
     ELSE Resolved("raw", "none", 0, response.status, response.data, NoErr)

\* The error a throwing success handler hands to the catch block; NoErr when
\* no success handler throws.
caught(method, outcome) ==
  LET response == runFulfilled(method.responseInterceptors, outcome.resp)
      i == IF outcome.ok THEN findSuccessHandler(method.successHandlers, response.status)
           ELSE 0
  IN IF i # 0 /\ method.successHandlers[i].handler \in ThrowingHandlers
     THEN thrownBy(method.successHandlers[i].handler)
     ELSE NoErr

\* The success handler the try block awaits for a resolved dispatch; "none"
\* when the dispatch was rejected or no success handler matches.
awaitedSuccessHandler(method, outcome) ==
  LET response == runFulfilled(method.responseInterceptors, outcome.resp)
      i == IF outcome.ok THEN findSuccessHandler(method.successHandlers, response.status)
           ELSE 0
  IN IF i # 0 THEN method.successHandlers[i].handler ELSE "none"

\* The error handler the catch block calls and whose promise it returns, for
\* a rejected dispatch or for what a success handler threw; "none" when the
\* catch block is not entered, the error is no axios error, an interceptor
\* turned it into a success or no error handler matches.
returnedErrorHandler(method, outcome) ==
  LET error == IF outcome.ok THEN caught(method, outcome) ELSE outcome.err
      run == runRejected(method.responseInterceptors, responseToIntercept(error))
      i == findErrorHandler(method.errorHandlers, run.resp.status)
  IN IF error.axios /\ ~run.promoted /\ i # 0
     THEN method.errorHandlers[i].handler
     ELSE "none"

settle(method, outcome) ==
  IF outcome.ok
  THEN onDispatchFulfilled(method, outcome.resp)
  ELSE onDispatchRejected(method, outcome.err)

\* -------------------------------------------------------------------- inputs
\* The retry and breaker policies, configurations and service methods the
\* model is run with.
RetryPolicies ==
  {RetryFalse}
  \cup {RetryObj(n, {503}, "unset", "none") : n \in 0..MaxRetries}
  \cup {RetryObj(MaxRetries, {Undef}, "false", "none"),
        RetryObj(MaxRetries, {Undef}, "unset", "rateLimitOrNetwork")}

\* Retry policies that differ in their delay options.
DelayPolicies ==
  {Delays(RetryObj(MaxRetries, {429}, "false", "none"),
          10, 300, ExpBool(TRUE), "backoffFrom100")}
  \cup
  {Delays(RetryObj(MaxRetries, {503}, "unset", "none"), d[1], d[2], d[3], d[4]) :
     d \in {<<100, 300, ExpBool(TRUE), "none">>,
            <<Undef, Undef, ExpNum(3), "none">>,
            <<100, Undef, ExpUnset, "none">>,
            <<100, 50, ExpBool(FALSE), "none">>,
            <<100, 2000, ExpNum(0), "none">>,
            <<Undef, Undef, ExpNum(1), "none">>}}

BreakerPolicies ==
  {BreakerFalse,
   BreakerObj("unset", 1, 2, 1, 1, {Undef}),
   BreakerObj("true", 1, 2, 1, 2, {Undef}),
   BreakerObj("true", 2, 2, 1, 2, {503}),
   BreakerObj("true", 2, 1, 2, 3, {Undef}),
   IsFailure(BreakerObj("true", 1, 2, 1, 1, {404}), "serverOrNetwork")}

GlobalInterceptors == {<<>>, <<"notFoundToOk">>, <<"stamp", "observe">>}

Config(r, b, g) ==
  [resilience |-> [kind |-> "object", retry |-> r, circuitBreaker |-> b],
   responseInterceptors |-> g]

Configs ==
  {Config(r, b, <<>>) :
     r \in RetryPolicies,
     b \in {BreakerFalse, BreakerObj("true", 2, 2, 1, 2, {503})}}
  \cup {Config(r, b, <<>>) :
          r \in {RetryFalse, RetryObj(1, {503}, "unset", "none")},
          b \in BreakerPolicies}
  \cup {Config(r, BreakerFalse, g) :
          r \in {RetryFalse, RetryObj(MaxRetries, {503}, "unset", "none")},
          g \in GlobalInterceptors}
  \cup {Config(RetryFalse, BreakerObj("true", 2, 2, 1, 2, {503}), g) :
          g \in GlobalInterceptors}
  \cup {Config(r, BreakerFalse, <<>>) : r \in DelayPolicies}
  \cup {[resilience |-> [kind |-> "false", retry |-> RetryUnset, circuitBreaker |-> BreakerUnset],
         responseInterceptors |-> <<"okToError">>]}

Method(errors, successes, interceptors) ==
  [errorHandlers |-> errors, successHandlers |-> successes, responseInterceptors |-> interceptors]

Methods ==
  {Method(<<>>, <<>>, <<>>),
   Method(OnError(OnError(<<>>, <<Null>>, "onAny"), <<404>>, "on404"),
          OnSuccess(<<>>, {200, 201}, "onOk"),
          <<>>),
   Method(OnError(OnError(OnError(<<>>, <<0>>, "onZero"), <<404, 503>>, "onListed"), <<Null>>, "onAny"),
          OnSuccess(OnSuccess(<<>>, {204}, "onEmpty"), {200}, "on200"),
          ResponseInterceptor(<<>>, "stamp")),
   Method(OnError(OnError(<<>>, <<0>>, "onZero"), <<503>>, "on503"),
          OnSuccess(<<>>, {500}, "on500"),
          ResponseInterceptor(ResponseInterceptor(<<>>, "notFoundToOk"), "okToError")),
   Method(OnErrorStatusless(<<>>, "onEvery"), <<>>, <<>>)}

\* --------------------------------------------------------------------- state
VARIABLES
  config,   \* the ApiServiceConfig the service instance was created with
  circuit,  \* the breaker's CircuitState of the instance
  now,      \* the clock
  ticks,    \* how often the clock advanced
  calls,    \* logical calls started so far
  call,     \* the invocation in flight
  result    \* how the last invocation settled

vars == <<config, circuit, now, ticks, calls, call, result>>

resilience == IF config.resilience.kind = "unset" THEN DEFAULT_RESILIENCE_POLICY
              ELSE config.resilience
resilienceOn == config.resilience.kind # "false"
retryOn == resilienceOn /\ resilience.retry.kind # "false"
retryPolicy == installedRetry(resilience)
breakerOn == resilienceOn /\ breakerInstalled(resilience)
breakerOptions == circuitBreakerOptions(breakerPolicy(resilience))

\* pc: idle, request (the request interceptors are next), transport, retry,
\* breaker, global (the response interceptor that is next at `level`),
\* settled (the dispatch settled, the generated method resumes), done.
\* blocked: the breaker rejected the call's first dispatch; outcomes and
\* failures: what the breaker recorded during this call; promoted: a global
\* interceptor turned the rejected dispatch into a resolved one; trace: the
\* interceptor calls made so far, passes: the passes over a chain so far;
\* delays: the delay awaited before each retry, with the count retryDelay was
\* called with; notified: the notifications onRetry made, one before each
\* delay is awaited; at: the interceptor calls made so far by the pass under
\* way, each of them awaited; awaited: the success handler the generated
\* method has called and awaits, "none" before; returned: the error handler
\* the catch block has called and whose promise it returned, "none" before.
IdleCall == [pc |-> "idle", method |-> Method(<<>>, <<>>, <<>>), level |-> 0, retryCount |-> 0,
             transportCount |-> 0, cur |-> Rejected(NoErr), blocked |-> FALSE,
             outcomes |-> 0, failures |-> 0, promoted |-> FALSE,
             trace |-> <<>>, passes |-> 0, delays |-> <<>>, notified |-> <<>>,
             at |-> 0, awaited |-> "none", returned |-> "none"]

Init ==
  /\ config \in Configs
  /\ circuit = CircuitInit
  /\ now = 0
  /\ ticks = 0
  /\ calls = 0
  /\ call = IdleCall
  /\ result = NoResult

\* A caller invokes a generated method.
Invoke ==
  /\ call.pc \in {"idle", "done"}
  /\ calls < MaxCalls
  /\ \E m \in Methods : call' = [IdleCall EXCEPT !.pc = "request", !.method = m]
  /\ calls' = calls + 1
  /\ result' = NoResult
  /\ UNCHANGED <<config, circuit, now, ticks>>

\* The request interceptors of one dispatch: the breaker's.
RequestInterceptors ==
  /\ call.pc = "request"
  /\ IF breakerOn /\ cbRejects(breakerOptions, circuit, now)
     THEN /\ call' = [call EXCEPT !.pc = "retry", !.cur = Rejected(CircuitOpenError),
                                  !.blocked = (call.level = 0) \/ @]
          /\ UNCHANGED circuit
     ELSE /\ call' = [call EXCEPT !.pc = "transport"]
          /\ circuit' = IF breakerOn THEN cbOnRequest(breakerOptions, circuit, now) ELSE circuit
  /\ UNCHANGED <<config, now, ticks, calls, result>>

\* The transport answers the attempt.
Transport ==
  /\ call.pc = "transport"
  /\ \E status \in TransportStatuses :
       \E retryAfter \in RetryAfterHeaders(status) :
         call' = [call EXCEPT !.pc = "retry", !.transportCount = @ + 1,
                              !.cur = withRetryAfter(
                                        TransportOutcome(status, call.transportCount + 1),
                                        retryAfter)]
  /\ UNCHANGED <<config, circuit, now, ticks, calls, result>>

\* The retry interceptor: a rejected dispatch that is to be retried is
\* dispatched again through the instance, one level deeper.
RetryInterceptor ==
  /\ call.pc = "retry"
  /\ IF retryOn /\ ~call.cur.ok /\ shouldRetry(retryPolicy, call.cur.err, call.retryCount)
     THEN LET n == delayRetryCount(call.retryCount)
              waited == [retryCount |-> n, delay |-> retryDelay(retryPolicy, n, call.cur.err)]
          IN call' = [call EXCEPT !.pc = "request", !.retryCount = @ + 1, !.level = @ + 1,
                                  !.delays = Append(@, waited),
                                  !.notified = Append(@, onRetry(retryPolicy, n, call.cur.err))]
     ELSE call' = [call EXCEPT !.pc = "breaker"]
  /\ UNCHANGED <<config, circuit, now, ticks, calls, result>>

\* The breaker's response interceptor records the outcome it is handed.
BreakerInterceptor ==
  /\ call.pc = "breaker"
  /\ IF breakerOn
     THEN LET failed == ~call.cur.ok /\ isFault(breakerOptions, call.cur.err)
              counted == circuit.phase # "Open"
          IN /\ circuit' = cbOnOutcome(breakerOptions, circuit, now, failed)
             /\ call' = [call EXCEPT !.pc = "global",
                           !.outcomes = IF counted THEN @ + 1 ELSE @,
                           !.failures = IF counted /\ failed THEN @ + 1 ELSE @]
     ELSE /\ call' = [call EXCEPT !.pc = "global"]
          /\ UNCHANGED circuit
  /\ UNCHANGED <<config, now, ticks, calls, result>>

\* The global response interceptors, one step for each handler the pair of
\* handlers installed on the instance calls and awaits; after the last of
\* them the chain of the level above goes on after its retry interceptor, or
\* the dispatch has settled.
GlobalInterceptor ==
  /\ call.pc = "global"
  /\ LET g == config.responseInterceptors
         out == IF Len(g) = 0 THEN call.cur
                ELSE IF call.cur.ok THEN globalOnFulfilled(g, call.cur.resp)
                ELSE globalOnRejected(g, call.cur.err)
         promoted == call.promoted \/ (~call.cur.ok /\ out.ok)
         made == IF Len(g) = 0 THEN <<>>
                 ELSE invocations("global", call.passes + 1, g, call.cur)
     IN IF call.at < Len(made)
        THEN call' = [call EXCEPT !.at = @ + 1, !.trace = Append(@, made[call.at + 1])]
        ELSE call' = [call EXCEPT !.pc = IF call.level > 0 THEN "breaker" ELSE "settled",
                                  !.level = IF call.level > 0 THEN @ - 1 ELSE @,
                                  !.cur = out, !.promoted = promoted, !.at = 0,
                                  !.passes = IF Len(g) = 0 THEN @ ELSE @ + 1]
  /\ UNCHANGED <<config, circuit, now, ticks, calls, result>>

\* The generated method resumes with the settled dispatch, one step for each
\* call it awaits: the method-level interceptors of the try block or of the
\* catch block, the success handler, the interceptors of the catch block for
\* what a success handler threw, the error handler whose promise the catch
\* block returns; the last step settles the invocation.
Settle ==
  /\ call.pc = "settled"
  /\ LET ran == call.cur.ok \/ call.cur.err.axios
         again == caught(call.method, call.cur).axios
         made == IF ran
                 THEN invocations("method", call.passes + 1,
                                  call.method.responseInterceptors, call.cur)
                 ELSE <<>>
         remade == IF again
                   THEN invocations("method", call.passes + 2,
                                    call.method.responseInterceptors,
                                    Rejected(caught(call.method, call.cur)))
                   ELSE <<>>
         handler == awaitedSuccessHandler(call.method, call.cur)
         errorHandler == returnedErrorHandler(call.method, call.cur)
     IN IF call.at < Len(made)
        THEN /\ call' = [call EXCEPT !.at = @ + 1, !.trace = Append(@, made[call.at + 1])]
             /\ UNCHANGED result
        ELSE IF handler # "none" /\ call.awaited = "none"
        THEN /\ call' = [call EXCEPT !.awaited = handler]
             /\ UNCHANGED result
        ELSE IF call.at < Len(made) + Len(remade)
        THEN /\ call' = [call EXCEPT !.at = @ + 1,
                                     !.trace = Append(@, remade[call.at - Len(made) + 1])]
             /\ UNCHANGED result
        ELSE IF errorHandler # "none" /\ call.returned = "none"
        THEN /\ call' = [call EXCEPT !.returned = errorHandler]
             /\ UNCHANGED result
        ELSE /\ result' = settle(call.method, call.cur)
             /\ call' = [call EXCEPT !.pc = "done", !.at = 0,
                            !.passes = IF again THEN @ + 2 ELSE IF ran THEN @ + 1 ELSE @]
  /\ UNCHANGED <<config, circuit, now, ticks, calls>>

\* Time passes.
Tick ==
  /\ ticks < MaxTicks
  /\ now' = now + 1
  /\ ticks' = ticks + 1
  /\ UNCHANGED <<config, circuit, calls, call, result>>

Next ==
  \/ Invoke
  \/ RequestInterceptors
  \/ Transport
  \/ RetryInterceptor
  \/ BreakerInterceptor
  \/ GlobalInterceptor
  \/ Settle
  \/ Tick

Spec == Init /\ [][Next]_vars

\* ---------------------------------------------------------------- scenarios
\* The scenarios of the specification, run against a scripted transport.
\* Retry: policy {retries: 3, retryableStatusCodes: [503]}, the transport
\* answers the first three attempts of a call with 503 and the fourth with
\* 200.  Breaker: policy {threshold: 5, minimumRequests: 10, window: 60000}
\* without retries, as written and with enabled set; five calls are answered
\* 200, the next five 503, any later call 200.
RetryScenario == Config(RetryObj(3, {503}, "unset", "none"), BreakerUnset, <<>>)

BreakerScenario(enabled) ==
  Config(RetryFalse, BreakerObj(enabled, 5, 60000, Undef, 10, {Undef}), <<>>)

ScenarioConfigs == {RetryScenario, BreakerScenario("unset"), BreakerScenario("true")}

\* The calls of the breaker scenario: minimumRequests of them and one more.
ScenarioCalls == DefaultMinimumRequests + 1

scenarioAnswer(cfg, nthCall, attempt) ==
  IF cfg = RetryScenario
  THEN IF attempt <= 3 THEN 503 ELSE 200
  ELSE IF nthCall <= 5 THEN 200
  ELSE IF nthCall <= 10 THEN 503
  ELSE 200

ScenarioInit ==
  /\ config \in ScenarioConfigs
  /\ circuit = CircuitInit
  /\ now = 0
  /\ ticks = 0
  /\ calls = 0
  /\ call = IdleCall
  /\ result = NoResult

\* A caller invokes a generated method, one call after the other.
ScenarioInvoke ==
  /\ call.pc \in {"idle", "done"}
  /\ calls < ScenarioCalls
  /\ \E m \in Methods : call' = [IdleCall EXCEPT !.pc = "request", !.method = m]
  /\ calls' = calls + 1
  /\ result' = NoResult
  /\ UNCHANGED <<config, circuit, now, ticks>>

\* The scripted transport answers the attempt.
ScenarioTransport ==
  /\ call.pc = "transport"
  /\ LET status == scenarioAnswer(config, calls, call.transportCount + 1)
     IN call' = [call EXCEPT !.pc = "retry", !.transportCount = @ + 1,
                             !.cur = TransportOutcome(status, call.transportCount + 1)]
  /\ UNCHANGED <<config, circuit, now, ticks, calls, result>>

ScenarioNext ==
  \/ ScenarioInvoke
  \/ RequestInterceptors
  \/ ScenarioTransport
  \/ RetryInterceptor
  \/ BreakerInterceptor
  \/ GlobalInterceptor
  \/ Settle
  \/ Tick

ScenarioSpec == ScenarioInit /\ [][ScenarioNext]_vars

\* ------------------------------------------------------------- registration
\* The decorators applied to one method while its class is being defined;
\* call.method holds the method's metadata registered so far.
RegisteredErrorStatuses == {<<Null>>, <<404>>, <<404, 503>>}
RegisteredSuccessStatuses == {{200}, {200, 201}}
RegisteredHandlers == {"onFirst", "onSecond"}
RegisteredInterceptors == {"observe", "stamp"}

registered(method) ==
  Len(method.errorHandlers) + Len(method.successHandlers) + Len(method.responseInterceptors)

RegistrationInit ==
  /\ config = Config(RetryFalse, BreakerFalse, <<>>)
  /\ circuit = CircuitInit
  /\ now = 0
  /\ ticks = 0
  /\ calls = 0
  /\ call = IdleCall
  /\ result = NoResult

DecorateOnError ==
  /\ call.pc = "idle" /\ registered(call.method) < MaxRegistrations
  /\ \E status \in RegisteredErrorStatuses, handler \in RegisteredHandlers :
       call' = [call EXCEPT !.method.errorHandlers = OnError(@, status, handler)]
  /\ UNCHANGED <<config, circuit, now, ticks, calls, result>>

DecorateOnSuccess ==
  /\ call.pc = "idle" /\ registered(call.method) < MaxRegistrations
  /\ \E status \in RegisteredSuccessStatuses, handler \in RegisteredHandlers :
       call' = [call EXCEPT !.method.successHandlers = OnSuccess(@, status, handler)]
  /\ UNCHANGED <<config, circuit, now, ticks, calls, result>>

DecorateResponseInterceptor ==
  /\ call.pc = "idle" /\ registered(call.method) < MaxRegistrations
  /\ \E handler \in RegisteredInterceptors :
       call' = [call EXCEPT !.method.responseInterceptors = ResponseInterceptor(@, handler)]
  /\ UNCHANGED <<config, circuit, now, ticks, calls, result>>

RegistrationNext ==
  \/ DecorateOnError
  \/ DecorateOnSuccess
  \/ DecorateResponseInterceptor

RegistrationSpec == RegistrationInit /\ [][RegistrationNext]_vars

\* ---------------------------------------------------------------- properties

\* C1: with retries = N one logical call makes at most N + 1 transport
\* invocations (one when no retry policy is installed), and a dispatch one
\* level deeper follows a failed attempt only when the retry condition of the
\* policy accepted that failure, with the number of retries made before it.
C1_AttemptsBounded ==
  /\ retryOn /\ retryPolicy.retries # Undef => call.transportCount <= retryPolicy.retries + 1
  /\ ~retryOn => call.transportCount <= 1
  /\ call.pc = "request" /\ call.level > 0 =>
       /\ ~call.cur.ok
       /\ retryCondition(retryPolicy, call.cur.err, call.retryCount - 1)

\* A call that used every attempt of a policy with at least one retry.
C1_Witness ==
  /\ call.pc = "done"
  /\ retryOn /\ retryPolicy.retries >= 1
  /\ call.transportCount = retryPolicy.retries + 1

\* The minimum number of requests the policy asks for: its minimumRequests,
\* 10 when left out.
documentedMinimumRequests ==
  IF breakerPolicy(resilience).minimumRequests = Undef
  THEN DefaultMinimumRequests
  ELSE breakerPolicy(resilience).minimumRequests

\* C2: the breaker goes from Closed to Open only when the requests counted in
\* the window have reached minimumRequests and the failures counted have
\* reached the threshold.
C2_OpensOnlyAfterMinimumRequests ==
  [][circuit.phase = "Closed" /\ circuit'.phase = "Open" =>
       /\ circuit'.requestCount >= documentedMinimumRequests
       /\ circuit'.failureCount >= breakerPolicy(resilience).threshold]_vars

\* C3: a request that meets the breaker Open before the policy's timeout has
\* elapsed since openedAt is rejected without reaching the transport; a call
\* rejected that way makes no transport invocation and no retry and rejects
\* with the breaker's error; and the breaker leaves Open only for HalfOpen and
\* only once the timeout has elapsed.
C3_OpenFailsFast ==
  /\ [](call.blocked => call.transportCount = 0 /\ call.retryCount = 0)
  /\ [](call.blocked /\ call.pc = "done" => result.kind = "rejected" /\ result.err.id = 0)
  /\ [][/\ breakerOn /\ call.pc = "request" /\ call' # call
        /\ circuit.phase = "Open"
        /\ now - circuit.openedAt < breakerPolicy(resilience).timeout
        => /\ call'.pc = "retry" /\ ~call'.cur.ok
           /\ call'.transportCount = call.transportCount
           /\ circuit' = circuit]_vars
  /\ [][circuit.phase = "Open" /\ circuit'.phase # "Open" =>
          /\ circuit'.phase = "HalfOpen"
          /\ now - circuit.openedAt >= breakerPolicy(resilience).timeout]_vars

\* A call that the open breaker rejected has settled.
C3_Witness ==
  /\ call.pc = "done" /\ call.blocked
  /\ circuit.phase = "Open"

\* C4: in HalfOpen the circuit state changes only when the breaker records the
\* trial's outcome: a success (a response, or an error that is no failure)
\* closes it with both counters reset, a failure opens it with openedAt set
\* to the time of that failure.  An error is a failure by the policy's
\* isFailure if it has one (the sample's: no response, or a status of 500 or
\* above), else when it has no response or a status in errorStatusCodes.
C4_HalfOpenTransitions ==
  [][circuit.phase = "HalfOpen" /\ circuit' # circuit =>
       /\ call.pc = "breaker"
       /\ LET p == breakerPolicy(resilience)
              codes == IF p.errorStatusCodes = {Undef} THEN {500, 502, 503, 504}
                       ELSE p.errorStatusCodes
              failed == /\ ~call.cur.ok
                        /\ \/ ~call.cur.err.hasResp
                           \/ IF p.isFailure = "serverOrNetwork"
                              THEN call.cur.err.resp.status >= 500
                              ELSE call.cur.err.resp.status \in codes
          IN IF failed
             THEN circuit'.phase = "Open" /\ circuit'.openedAt = now
             ELSE /\ circuit'.phase = "Closed"
                  /\ circuit'.failureCount = 0 /\ circuit'.requestCount = 0]_vars

\* The breaker has closed again after a successful trial.
C4_Witness ==
  /\ circuit.phase = "Closed"
  /\ circuit.windowStart > 0
  /\ circuit.requestCount = 0
  /\ call.pc = "global"

\* C5: a logical call contributes its final outcome to the breaker once, so a
\* call whose attempts all fail raises failureCount by one, whatever the
\* number of attempts it made.
C5_OneOutcomePerCall ==
  call.pc = "done" => call.failures <= 1

\* The call's failure is one the method-level interceptors turn into a 2xx
\* response.
methodLevelPromotion ==
  /\ ~call.cur.ok /\ call.cur.err.axios
  /\ runRejected(call.method.responseInterceptors, responseToIntercept(call.cur.err)).promoted

\* The response the method-level interceptors leave on the success path.
finalResponse == runFulfilled(call.method.responseInterceptors, call.cur.resp)

\* The status the error handler lookup runs on.
finalErrorStatus ==
  runRejected(call.method.responseInterceptors, responseToIntercept(call.cur.err)).resp.status

\* C6: when a global or method-level interceptor turns the failed
\* response's status into [200,300), the call resolves and the value is
\* exactly the data of the last mutated response, no handler applied.
C6_PromotionYieldsData ==
  call.pc = "done" /\ (call.promoted \/ methodLevelPromotion) =>
    /\ result.kind = "resolved"
    /\ result.handler = "none"
    /\ result.data = IF call.promoted THEN finalResponse.data
                     ELSE runRejected(call.method.responseInterceptors,
                                      responseToIntercept(call.cur.err)).resp.data

\* C7: when a handler for the failing status and a catch-all are both
\* registered, the one chosen is the handler for the status, whatever the
\* registration order.
C7_SpecificBeforeCatchAll ==
  /\ call.pc = "done" /\ result.via = "error"
  /\ \E i \in 1..Len(call.method.errorHandlers) :
        call.method.errorHandlers[i].status = result.status
  => call.method.errorHandlers[result.index].status = result.status

\* C8: a failure whose final status is 0 is handled by the first registered
\* catch-all handler when there is one and by no handler otherwise, even when
\* a handler is registered for status 0.
C8_StatusZeroOnlyCatchAll ==
  call.pc = "done" /\ ~call.cur.ok /\ call.cur.err.axios /\ finalErrorStatus = 0 =>
    LET handlers == call.method.errorHandlers
        catchAll == {i \in 1..Len(handlers) : handlers[i].status = Null}
    IN IF catchAll = {}
       THEN result.kind = "rejected"
       ELSE /\ result.via = "error"
            /\ result.index \in catchAll
            /\ \A j \in catchAll : result.index <= j

\* A failure without a response went to the catch-all although a handler for
\* status 0 was registered before it.
C8_Witness ==
  /\ call.pc = "done" /\ result.via = "error" /\ result.status = 0
  /\ ~call.cur.err.hasResp
  /\ call.method.errorHandlers[result.index].status = Null
  /\ \E i \in 1..(result.index - 1) : call.method.errorHandlers[i].status = 0

\* C9: a call whose dispatch settled with the transport's error, which no
\* method-level interceptor promotes and whose final status no error handler
\* matches, rejects with that very error, the one the last attempt raised.
C9_UnhandledFailureRethrown ==
  /\ call.pc = "done" /\ ~call.cur.ok /\ call.cur.err.axios
  /\ ~methodLevelPromotion
  /\ \A i \in 1..Len(call.method.errorHandlers) :
        /\ call.method.errorHandlers[i].status # Null
        /\ call.method.errorHandlers[i].status # finalErrorStatus \/ finalErrorStatus = 0
  => /\ result.kind = "rejected"
     /\ result.err = call.cur.err
     /\ result.err.id = call.transportCount

\* A retried call rejected with the error of its last attempt while handlers
\* for other statuses were registered.
C9_Witness ==
  /\ call.pc = "done" /\ result.kind = "rejected"
  /\ call.transportCount >= 2
  /\ result.err.id = call.transportCount
  /\ Len(call.method.errorHandlers) > 0

\* C10: a call whose dispatch resolved returns, for the response the
\* method-level interceptors leave, the result of the first success handler
\* whose statuses include the final status, applied to the final data, and
\* the final data itself when no success handler matches.
C10_SuccessHandlerOrRawPayload ==
  call.pc = "done" /\ call.cur.ok =>
    LET handlers == call.method.successHandlers
        matching == {i \in 1..Len(handlers) : finalResponse.status \in handlers[i].status}
    IN /\ result.kind = "resolved"
       /\ result.data = finalResponse.data
       /\ IF matching = {}
          THEN result.via = "raw" /\ result.handler = "none"
          ELSE /\ result.via = "success"
               /\ result.index \in matching
               /\ \A j \in matching : result.index <= j
               /\ result.handler = handlers[result.index].handler

\* A response answered by a success handler registered for several statuses.
C10_Witness ==
  /\ call.pc = "done" /\ call.cur.ok /\ ~call.promoted
  /\ result.via = "success"
  /\ Cardinality(call.method.successHandlers[result.index].status) > 1

\* The list a pass of the trace ran over.
chainOf(entry) ==
  IF entry.scope = "global" THEN config.responseInterceptors
  ELSE call.method.responseInterceptors

\* The response that is current after an interceptor call.
currentAfter(entry) ==
  LET returned == interceptorHandler(entry.ic, entry.input)
  IN IF returned.some THEN returned.resp ELSE entry.input

\* The interceptor call returned a response with a 2xx status.
returnedSuccess(entry) ==
  LET returned == interceptorHandler(entry.ic, entry.input)
  IN returned.some /\ isSuccessStatusCode(returned.resp)

\* The calls of the trace are ordered: no global interceptor after a
\* method-level one, each pass starts at the head of its list and goes on in
\* registration order, and each interceptor is called with the response
\* current after the one before it.
orderedAndThreaded ==
  LET t == call.trace
  IN /\ \A i, j \in 1..Len(t) : i < j => ~(t[i].scope = "method" /\ t[j].scope = "global")
     /\ \A i \in 1..Len(t) :
          /\ t[i].index \in 1..Len(chainOf(t[i]))
          /\ t[i].ic = chainOf(t[i])[t[i].index]
          /\ (i = 1 \/ t[i - 1].pass # t[i].pass) => t[i].index = 1
          /\ i > 1 /\ t[i - 1].pass = t[i].pass =>
               /\ t[i].index = t[i - 1].index + 1
               /\ t[i].scope = t[i - 1].scope /\ t[i].path = t[i - 1].path
               /\ t[i].input = currentAfter(t[i - 1])

\* The entry is the last one of its pass.
lastOfPass(i) ==
  i = Len(call.trace) \/ call.trace[i + 1].pass # call.trace[i].pass

\* C11 (as stated): on the success path and on the failure path alike every
\* pass over a list of interceptors calls every interceptor of the list, in
\* registration order and with the current response, global before
\* method-level.
C11_EveryInterceptorRuns ==
  call.pc = "done" =>
    /\ orderedAndThreaded
    /\ \A i \in 1..Len(call.trace) :
         lastOfPass(i) => call.trace[i].index = Len(chainOf(call.trace[i]))

\* C11: global interceptors are called before method-level ones, each list in
\* registration order, each interceptor with the current response (the one
\* before it left unchanged by an empty return, replaced by a returned
\* response); a pass calls every interceptor of its list, except that on the
\* failure path it ends with the first interceptor that returns a response
\* with a 2xx status; the data a call resolves with without an error handler
\* is that of the response current after the last call.
C11_InterceptorOrder ==
  call.pc = "done" =>
    /\ orderedAndThreaded
    /\ \A i \in 1..Len(call.trace) :
         LET e == call.trace[i]
         IN /\ lastOfPass(i) =>
                 \/ e.index = Len(chainOf(e))
                 \/ e.path = "failure" /\ returnedSuccess(e)
            /\ ~lastOfPass(i) => ~(e.path = "failure" /\ returnedSuccess(e))
    /\ call.cur.ok \/ call.cur.err.axios =>
         /\ call.method.responseInterceptors # <<>> =>
              \E i \in 1..Len(call.trace) :
                 /\ call.trace[i].scope = "method" /\ call.trace[i].index = 1
                 /\ call.trace[i].input = IF call.cur.ok THEN call.cur.resp
                                          ELSE responseToIntercept(call.cur.err)
         /\ config.responseInterceptors # <<>> =>
              \E i \in 1..Len(call.trace) : call.trace[i].scope = "global"
         /\ call.method.responseInterceptors # <<>> /\ result.kind = "resolved"
            /\ result.via # "error" =>
              result.data = currentAfter(call.trace[Len(call.trace)]).data

\* Both chains ran on a failure, the method-level one after a global
\* interceptor replaced the response.
C11_Witness ==
  /\ call.pc = "done" /\ ~call.cur.ok
  /\ \E i, j \in 1..Len(call.trace) :
       /\ i < j
       /\ call.trace[i].scope = "global" /\ call.trace[i].ic = "stamp"
       /\ call.trace[j].scope = "method" /\ call.trace[j].input.data = "stamped"

\* The retry interceptor decides about a failed attempt of a request.
retryDecision ==
  /\ call.pc = "retry" /\ call' # call
  /\ retryOn /\ ~call.cur.ok /\ call.cur.err.hasConfig

\* C12: without a custom shouldRetry a failed attempt is retried exactly when
\* retries are left and either no response was received and
\* retryOnNetworkError is not false, or a response was received whose status
\* is one of retryableStatusCodes (the default list when none is given).
C12_DefaultRetryEligibility ==
  [][retryDecision /\ retryPolicy.shouldRetry = "none" =>
       LET e == call.cur.err
           codes == IF retryPolicy.retryableStatusCodes = {Undef}
                    THEN {408, 429, 500, 502, 503, 504}
                    ELSE retryPolicy.retryableStatusCodes
           eligible == \/ ~e.hasResp /\ retryPolicy.retryOnNetworkError # "false"
                       \/ e.hasResp /\ e.resp.status \in codes
       IN (call'.pc = "request" /\ call'.level = call.level + 1)
            <=> (eligible /\ call.retryCount < retryPolicy.retries)]_vars

\* A failure without response was passed on unretried, retries being left,
\* because retryOnNetworkError is false.
C12_Witness ==
  /\ call.pc = "breaker" /\ call.level = 0 /\ call.retryCount = 0
  /\ retryOn /\ retryPolicy.shouldRetry = "none"
  /\ retryPolicy.retryOnNetworkError = "false" /\ retryPolicy.retries > 0
  /\ ~call.cur.ok /\ call.cur.err.hasConfig /\ ~call.cur.err.hasResp

\* C13: with a custom shouldRetry a failed attempt is retried exactly when
\* retries are left and the predicate accepts the error together with the
\* number of retries made so far, counted from 0; retryableStatusCodes and
\* retryOnNetworkError play no part.  The predicate is the samples' one: a
\* 429 always, a failure without response while fewer than two retries were
\* made, nothing else.
C13_CustomPredicateDecides ==
  [][retryDecision /\ retryPolicy.shouldRetry = "rateLimitOrNetwork" =>
       LET e == call.cur.err
           accepted == \/ e.hasResp /\ e.resp.status = 429
                       \/ ~e.hasResp /\ call.retryCount < 2
       IN (call'.pc = "request" /\ call'.level = call.level + 1)
            <=> (accepted /\ call.retryCount < retryPolicy.retries)]_vars

\* Under the custom predicate a failure without response was retried a second
\* time, the predicate having been asked with 1.
C13_Witness ==
  /\ call.pc = "request" /\ call.retryCount = 2
  /\ retryOn /\ retryPolicy.shouldRetry = "rateLimitOrNetwork"
  /\ ~call.cur.ok /\ ~call.cur.err.hasResp

\* The retry interceptor decides to retry.
retrying == call.pc = "retry" /\ call'.pc = "request"

\* With retryDelayFn given, the delay awaited before a retry is what that
\* function returns for the number of the retry and the error retried.
awaitsDelayFnResult ==
  retrying /\ retryPolicy.retryDelayFn # "none" =>
    call'.delays[Len(call'.delays)].delay =
      customRetryDelayFn(retryPolicy.retryDelayFn,
                         call'.delays[Len(call'.delays)].retryCount, call.cur.err)

\* C14: for every retry, with retryDelayFn given the delay awaited is what
\* that function returns for the retry count and the error; without it and with
\* exponentialBackoff true or a number other than 0 the delay is
\* min(retryDelay * multiplier^retryCount, retryDelayMax), the multiplier
\* being 2 for true and the number otherwise, retryDelay 100 and
\* retryDelayMax 2000 when left out.
C14_BackoffDelay ==
  /\ [][awaitsDelayFnResult]_vars
  /\ [](\A i \in 1..Len(call.delays) :
          LET e == call.delays[i]
              p == retryPolicy
              base == IF p.retryDelay = Undef THEN 100 ELSE p.retryDelay
              top == IF p.retryDelayMax = Undef THEN 2000 ELSE p.retryDelayMax
              b == p.exponentialBackoff
              grown == base * (IF b.kind = "number" THEN b.value ELSE 2) ^ e.retryCount
          IN p.retryDelayFn = "none" /\ b.kind # "undefined" /\ b.value # 0 =>
               e.delay = IF grown <= top THEN grown ELSE top)

\* Two retries were awaited under exponential backoff, the second delay cut
\* down to retryDelayMax.
C14_Witness ==
  /\ retryPolicy.retryDelayFn = "none" /\ retryPolicy.exponentialBackoff = ExpBool(TRUE)
  /\ retryPolicy.retryDelay = 100 /\ retryPolicy.retryDelayMax = 300
  /\ Len(call.delays) = 2
  /\ call.delays[1].delay = 200 /\ call.delays[2].delay = 300

\* C15: with {retries: 3, retryableStatusCodes: [503]} and a transport that
\* answers 503 three times and then 200, a call leaves the retry interceptor
\* only after the fourth transport invocation, with the 200 response, and
\* resolves.
C15_ResolvesAfterFourAttempts ==
  config = RetryScenario =>
    /\ call.transportCount <= 4
    /\ call.pc \in {"breaker", "global", "settled", "done"} =>
         /\ call.transportCount = 4
         /\ call.cur.ok /\ call.cur.resp.status = 200
    /\ call.pc = "done" => result.kind = "resolved"

\* A call of the retry scenario has resolved after three retries.
C15_Witness ==
  /\ config = RetryScenario
  /\ call.pc = "done" /\ result.kind = "resolved"
  /\ call.retryCount = 3 /\ call.transportCount = 4

\* C16: with breaker {threshold: 5, minimumRequests: 10, window: 60000},
\* after ten calls of which five failed inside the window the eleventh call,
\* made before the timeout elapsed, never reaches the transport and is
\* rejected by the breaker.
C16_EleventhCallRejected ==
  config = BreakerScenario("unset") /\ calls = ScenarioCalls =>
    /\ call.transportCount = 0
    /\ call.pc = "done" => call.blocked /\ result.kind = "rejected"

\* The method with every statusless error handler registration written as
\* @OnError(null, onEvery).
withNullStatus(method) ==
  [method EXCEPT !.errorHandlers =
     [i \in 1..Len(@) |-> IF @[i].status = FunctionStatus
                          THEN [status |-> Null, handler |-> "onEvery"]
                          ELSE @[i]]]

\* C17: a call on a method whose error handler was registered as
\* @OnError(onEvery) settles as it would had the handler been registered as
\* @OnError(null, onEvery): for every failure the handler is chosen.
C17_StatuslessIsCatchAll ==
  /\ call.pc = "done" /\ ~call.cur.ok
  /\ \E i \in 1..Len(call.method.errorHandlers) :
        call.method.errorHandlers[i].status = FunctionStatus
  => /\ result.kind = onDispatchRejected(withNullStatus(call.method), call.cur.err).kind
     /\ result.via = onDispatchRejected(withNullStatus(call.method), call.cur.err).via
     /\ call.cur.err.axios => result.via = "error"

\* C19: a circuitBreaker policy object that leaves `enabled` out is active:
\* with threshold 1 the breaker is open once the first call has failed
\* without a response or with a status among the error status codes.
C19_UnsetEnabledIsActive ==
  LET policy == resilience.circuitBreaker
  IN /\ resilienceOn /\ policy.kind = "object" /\ policy.enabled = "unset"
     /\ policy.threshold = 1
     /\ calls = 1 /\ call.pc = "done" /\ call.transportCount >= 1
     /\ ~call.cur.ok
     /\ ~call.cur.err.hasResp \/ call.cur.err.resp.status \in {500, 502, 503, 504}
     => circuit.phase = "Open"

\* C20: a retry policy object that leaves exponentialBackoff out backs off
\* exponentially with multiplier 2: the delays of successive retries grow,
\* each being min(retryDelay * 2^retryCount, retryDelayMax).
C20_BackoffByDefault ==
  LET p == retryPolicy
  IN /\ retryOn /\ p.retryDelayFn = "none" /\ p.exponentialBackoff = ExpUnset
     /\ p.retryDelay = 100 /\ p.retryDelayMax = Undef
     /\ Len(call.delays) >= 2
     => /\ call.delays[2].delay > call.delays[1].delay
        /\ \A i \in 1..Len(call.delays) :
             call.delays[i].delay = 100 * 2 ^ call.delays[i].retryCount

\* C18: every registration leaves the entries registered before in place and
\* in order and appends its own at the end of its list: @OnError one entry
\* per status with the handler, @OnSuccess one entry with its statuses and
\* handler, @ResponseInterceptor its handler; the other two lists stay as
\* they are.
C18_RegistrationsAppend ==
  [][LET m == call.method
         n == call'.method
     IN \/ /\ \E status \in RegisteredErrorStatuses, handler \in RegisteredHandlers :
                n.errorHandlers =
                  m.errorHandlers
                  \o [i \in 1..Len(status) |-> [status |-> status[i], handler |-> handler]]
           /\ n.successHandlers = m.successHandlers
           /\ n.responseInterceptors = m.responseInterceptors
        \/ /\ \E status \in RegisteredSuccessStatuses, handler \in RegisteredHandlers :
                n.successHandlers =
                  m.successHandlers \o <<[status |-> status, handler |-> handler]>>
           /\ n.errorHandlers = m.errorHandlers
           /\ n.responseInterceptors = m.responseInterceptors
        \/ /\ \E handler \in RegisteredInterceptors :
                n.responseInterceptors = m.responseInterceptors \o <<handler>>
           /\ n.errorHandlers = m.errorHandlers
           /\ n.successHandlers = m.successHandlers]_vars

\* Two @OnError registrations, the second for a list of statuses, have left
\* three entries in registration order.
C18_Witness ==
  /\ Len(call.method.errorHandlers) = 3
  /\ call.method.errorHandlers[1] = [status |-> Null, handler |-> "onFirst"]
  /\ call.method.errorHandlers[2] = [status |-> 404, handler |-> "onSecond"]
  /\ call.method.errorHandlers[3] = [status |-> 503, handler |-> "onSecond"]

\* ---------------------------------------------------------------------
\* The request a generated method builds before it dispatches
\* (create-api-service.ts:80-99 and 136-177).
\*
\* A string is a sequence of tokens: a reserved character on its own, or a
\* run of unreserved characters.  A JavaScript value is undefined, a string
\* or a number; num is the value of a number and chars that of a string.
Undefined == [kind |-> "undefined", chars |-> <<>>, num |-> 0]
Str(chars) == [kind |-> "string", chars |-> chars, num |-> 0]
Num(n) == [kind |-> "number", chars |-> <<>>, num |-> n]
NullValue == [kind |-> "null", chars |-> <<>>, num |-> 0]

RECURSIVE digits(_)
digits(n) == IF n < 10 THEN <<Digit[n + 1]>> ELSE digits(n \div 10) \o <<Digit[(n % 10) + 1]>>

\* String(value)
String(value) ==
  CASE value.kind = "string" -> value.chars
    [] value.kind = "number" -> digits(value.num)
    [] value.kind = "null" -> <<"null">>
    [] OTHER -> <<"undefined">>

\* The percent-encoding of the reserved characters that occur.
escapeOf(c) ==
  CASE c = " " -> <<"%20">>
    [] c = "/" -> <<"%2F">>
    [] c = "{" -> <<"%7B">>
    [] c = "}" -> <<"%7D">>
    [] OTHER -> <<c>>

RECURSIVE encodeURIComponent(_)
encodeURIComponent(s) ==
  IF s = <<>> THEN <<>> ELSE escapeOf(Head(s)) \o encodeURIComponent(Tail(s))

\* String.prototype.indexOf, counted from 1; 0 when the pattern is absent.
indexOf(s, pattern) ==
  LET at == {i \in 1..(Len(s) - Len(pattern) + 1) :
               SubSeq(s, i, i + Len(pattern) - 1) = pattern}
  IN IF at = {} THEN 0 ELSE CHOOSE i \in at : \A j \in at : i <= j

\* String.prototype.replace with a string pattern: the first occurrence.
replace(s, pattern, replacement) ==
  LET i == indexOf(s, pattern)
  IN IF i = 0 THEN s
     ELSE SubSeq(s, 1, i - 1) \o replacement \o SubSeq(s, i + Len(pattern), Len(s))

placeholder(name) == <<"{", name, "}">>

HeaderNames == {"Authorization", "X-Trace"}
QueryNames == {"q"}
Absent == [present |-> FALSE, value |-> <<>>]
Present(value) == [present |-> TRUE, value |-> value]
NoHeaders == [h \in HeaderNames |-> Absent]
NoQuery == [q \in QueryNames |-> [present |-> FALSE, value |-> Undefined]]

\* The Authorization header value for a token.
authorizationHeader(authorizationType, token) ==
  LET authType == IF authorizationType = "unset" THEN "Bearer" ELSE authorizationType
  IN IF authType = "Bearer" THEN <<"Bearer", " ">> \o token
     ELSE IF authType = "Basic" THEN <<"Basic", " ">> \o token
     ELSE token

\* The authorization option: none, a string, or a supplier function.
NoAuthorization == [kind |-> "none", value |-> <<>>]
StaticAuthorization(token) == [kind |-> "string", value |-> token]
DynamicAuthorization == [kind |-> "function", value |-> <<>>]

\* createSingleService: the headers shared by every call of the service.
headers(cfg) ==
  IF cfg.authorization.kind = "string" /\ cfg.authorization.value # <<>>
  THEN [cfg.headers EXCEPT !["Authorization"] =
          Present(authorizationHeader(cfg.authorizationType, cfg.authorization.value))]
  ELSE cfg.headers

\* The supplier's header set even for a token that is not truthy.
resolveAuthorizationAlways(cfg, requestHeaders, token) ==
  [requestHeaders EXCEPT !["Authorization"] =
     Present(authorizationHeader(cfg.authorizationType, String(token)))]

\* The generated method after `await config.authorization()`.
resolveAuthorization(cfg, requestHeaders, token) ==
  IF token.kind = "string" /\ token.chars # <<>>
  THEN [requestHeaders EXCEPT !["Authorization"] =
          Present(authorizationHeader(cfg.authorizationType, token.chars))]
  ELSE requestHeaders

Param(type, name, index) == [type |-> type, name |-> name, index |-> index]

\* A header binding that does not override a header that is already set.
bindParameterStaticFirst(req, param, args) ==
  IF param.index > Len(args) THEN req
  ELSE LET value == args[param.index]
       IN IF param.type = "path" /\ param.name # "" /\ value.kind # "undefined"
          THEN [req EXCEPT !.url = replace(@, placeholder(param.name),
                                           encodeURIComponent(String(value)))]
          ELSE IF param.type = "query" /\ param.name # "" /\ value.kind # "undefined"
          THEN [req EXCEPT !.queryParams[param.name] = [present |-> TRUE, value |-> value]]
          ELSE IF param.type = "body"
          THEN [req EXCEPT !.requestBody = value]
          ELSE IF param.type = "header" /\ param.name # "" /\ value.kind # "undefined"
                  /\ ~req.requestHeaders[param.name].present
          THEN [req EXCEPT !.requestHeaders[param.name] = Present(String(value))]
          ELSE req

\* One iteration of paramMetadata.forEach; index counts the arguments from 1,
\* a binding without a name has the empty name.
bindParameter(req, param, args) ==
  IF param.index > Len(args) THEN req
  ELSE LET value == args[param.index]
       IN IF param.type = "path" /\ param.name # "" /\ value.kind # "undefined"
          THEN [req EXCEPT !.url = replace(@, placeholder(param.name),
                                           encodeURIComponent(String(value)))]
          ELSE IF param.type = "query" /\ param.name # "" /\ value.kind # "undefined"
          THEN [req EXCEPT !.queryParams[param.name] = [present |-> TRUE, value |-> value]]
          ELSE IF param.type = "body"
          THEN [req EXCEPT !.requestBody = value]
          ELSE IF param.type = "header" /\ param.name # "" /\ value.kind # "undefined"
          THEN [req EXCEPT !.requestHeaders[param.name] = Present(String(value))]
          ELSE req

RECURSIVE bindParameters(_, _, _, _)
bindParameters(req, paramMetadata, args, i) ==
  IF i > Len(paramMetadata) THEN req
  ELSE bindParameters(bindParameter(req, paramMetadata[i], args), paramMetadata, args, i + 1)

\* The locals of the generated method before the supplier is awaited.
requestLocals(cfg, pathTemplate) ==
  [url |-> pathTemplate, queryParams |-> NoQuery, requestBody |-> Undefined,
   requestHeaders |-> headers(cfg)]

NoRequest == [url |-> <<>>, queryParams |-> NoQuery, requestBody |-> Undefined,
              requestHeaders |-> NoHeaders]

\* Endpoints: a path template and its parameter metadata.
Endpoint(pathTemplate, paramMetadata) ==
  [pathTemplate |-> pathTemplate, paramMetadata |-> paramMetadata]

Endpoints ==
  {Endpoint(<<"/", "users", "/", "{", "id", "}">>,
            <<Param("path", "id", 1), Param("query", "q", 2), Param("header", "X-Trace", 3)>>),
   Endpoint(<<"/", "{", "id", "}", "/", "items", "/", "{", "item", "}">>,
            <<Param("path", "id", 1), Param("path", "item", 2), Param("body", "", 3)>>),
   Endpoint(<<"/", "{", "id", "}", "/", "copy", "/", "{", "id", "}">>,
            <<Param("header", "Authorization", 1), Param("query", "q", 2),
              Param("path", "id", 3)>>)}

ArgValues == {Undefined, Num(42), Str(<<"a", " ", "b">>), Str(<<"{", "id", "}">>)}
ArgLists == {<<Num(42), b>> : b \in {Undefined, Num(7)}}
              \cup {<<a, b, c>> : a \in ArgValues, b \in {Undefined, Num(7)},
                                  c \in {Undefined, Num(42), Str(<<"a", " ", "b">>)}}
Tokens == {NullValue, Undefined, Str(<<>>), Str(<<"t1">>)}

\* How the supplier's promise settles: with a token, or rejected.
Rejection == [kind |-> "rejection", chars |-> <<>>, num |-> 0]
SupplierOutcomes == Tokens \cup {Rejection}
\* What the invocation rejects with when the supplier's promise rejects: the
\* supplier's error, which no catch block of the generated method sees.
SupplierError == Err(93, FALSE, FALSE, FALSE, NoResp)

ServiceHeaders ==
  {NoHeaders,
   [NoHeaders EXCEPT !["X-Trace"] = Present(<<"static">>)],
   [NoHeaders EXCEPT !["Authorization"] = Present(<<"preset">>),
                     !["X-Trace"] = Present(<<"static">>)]}

ServiceConfig(h, authorization, authorizationType) ==
  Config(RetryObj(1, {503}, "unset", "none"), BreakerFalse, <<>>)
    @@ [headers |-> h, authorization |-> authorization,
        authorizationType |-> authorizationType]

ServiceConfigs ==
  {ServiceConfig(h, NoAuthorization, "unset") : h \in ServiceHeaders}
    \cup {ServiceConfig(h, StaticAuthorization(<<"key">>), "Basic") : h \in ServiceHeaders}
    \cup {ServiceConfig([NoHeaders EXCEPT !["X-Trace"] = Present(<<"static">>)],
                        DynamicAuthorization, t) : t \in {"unset", "Custom"}}
    \cup {ServiceConfig([NoHeaders EXCEPT !["Authorization"] = Present(<<"preset">>),
                                          !["X-Trace"] = Present(<<"static">>)],
                        DynamicAuthorization, "unset")}

\* steps: what the generated method did, in order; authorizations: how
\* often the supplier was invoked; token: what it yielded.  At pc
\* "authorization" the supplier has been called and its promise is awaited.
IdleRequest ==
  IdleCall @@ [endpoint |-> Endpoint(<<>>, <<>>), args |-> <<>>, request |-> NoRequest,
               steps |-> <<>>, authorizations |-> 0, token |-> Undefined]

RequestInit ==
  /\ config \in ServiceConfigs
  /\ circuit = CircuitInit
  /\ now = 0
  /\ ticks = 0
  /\ calls = 0
  /\ call = IdleRequest
  /\ result = NoResult

\* A caller invokes a generated method with arguments.  With a supplier the
\* method calls it and suspends on its promise; without one the bindings are
\* applied at once.
RequestInvoke ==
  /\ call.pc \in {"idle", "done"}
  /\ calls < MaxCalls
  /\ \E e \in Endpoints, args \in ArgLists :
       LET locals == requestLocals(config, e.pathTemplate)
           dynamic == config.authorization.kind = "function"
       IN call' = [IdleRequest EXCEPT
                     !.pc = IF dynamic THEN "authorization" ELSE "request",
                     !.endpoint = e, !.args = args,
                     !.request = IF dynamic THEN locals
                                 ELSE bindParameters(locals, e.paramMetadata, args, 1),
                     !.authorizations = IF dynamic THEN 1 ELSE 0,
                     !.steps = IF dynamic THEN <<"authorization">> ELSE <<"bind">>]
  /\ calls' = calls + 1
  /\ result' = NoResult
  /\ UNCHANGED <<config, circuit, now, ticks>>

\* The supplier's promise settles.  A token: the header is set if the token
\* is truthy and the bindings are applied.  A rejection: the invocation
\* rejects with the supplier's error and hands over no request.
ResolveAuthorization ==
  /\ call.pc = "authorization"
  /\ \E settled \in SupplierOutcomes :
       IF settled = Rejection
       THEN /\ call' = [call EXCEPT !.pc = "done"]
            /\ result' = Thrown(0, SupplierError)
       ELSE LET resolved == [call.request EXCEPT
                               !.requestHeaders = resolveAuthorization(config, @, settled)]
            IN /\ call' = [call EXCEPT
                             !.pc = "request", !.token = settled,
                             !.request = bindParameters(resolved, call.endpoint.paramMetadata,
                                                        call.args, 1),
                             !.steps = Append(@, "bind")]
               /\ UNCHANGED result
  /\ UNCHANGED <<config, circuit, now, ticks, calls>>

RequestNext ==
  \/ RequestInvoke
  \/ ResolveAuthorization
  \/ RequestInterceptors
  \/ Transport
  \/ RetryInterceptor
  \/ BreakerInterceptor
  \/ GlobalInterceptor
  \/ Settle

RequestSpec == RequestInit /\ [][RequestNext]_vars

\* ---------------------------------------------------------------------
\* mergeResiliencePolicies (resilience/index.ts:117-146).

\* { ...base, ...override } of two sub-policy objects; unset holds, for each
\* field, the value that stands for a field that is left out.
spread(base, override, unset) ==
  [f \in DOMAIN override |->
     IF f = "kind" THEN "object"
     ELSE IF override[f] # unset[f] THEN override[f] ELSE base[f]]

\* The merge with the base's fields taking precedence.
mergeResiliencePoliciesBaseFirst(base, override) ==
  [base EXCEPT
     !.retry = IF override.retry.kind = "unset" THEN @
               ELSE IF override.retry.kind = "false" THEN RetryFalse
               ELSE spread(override.retry, IF @.kind = "object" THEN @ ELSE RetryUnset,
                           RetryUnset),
     !.circuitBreaker =
               IF override.circuitBreaker.kind = "unset" THEN @
               ELSE IF override.circuitBreaker.kind = "false" THEN BreakerFalse
               ELSE spread(override.circuitBreaker,
                           IF @.kind = "object" THEN @ ELSE BreakerUnset, BreakerUnset)]

mergeResiliencePolicies(base, override) ==
  [base EXCEPT
     !.retry = IF override.retry.kind = "unset" THEN @
               ELSE IF override.retry.kind = "false" THEN RetryFalse
               ELSE spread(IF @.kind = "object" THEN @ ELSE RetryUnset, override.retry,
                           RetryUnset),
     !.circuitBreaker =
               IF override.circuitBreaker.kind = "unset" THEN @
               ELSE IF override.circuitBreaker.kind = "false" THEN BreakerFalse
               ELSE spread(IF @.kind = "object" THEN @ ELSE BreakerUnset,
                           override.circuitBreaker, BreakerUnset)]

ResiliencePolicy(r, b) == [kind |-> "object", retry |-> r, circuitBreaker |-> b]

BaseResiliencePolicies ==
  {ResiliencePolicy(r, b) :
     r \in {RetryFalse, RetryUnset, DEFAULT_RESILIENCE_POLICY.retry,
            RetryObj(1, {Undef}, "unset", "rateLimitOrNetwork")},
     b \in {BreakerFalse, BreakerUnset, DEFAULT_RESILIENCE_POLICY.circuitBreaker}}

OverrideResiliencePolicies ==
  {ResiliencePolicy(r, b) :
     r \in {RetryFalse, RetryUnset, RetryObj(2, {Undef}, "unset", "none"),
            Delays(RetryObj(Undef, {429}, "false", "none"), 50, Undef, ExpNum(3), "none")},
     b \in {BreakerFalse, BreakerUnset,
            BreakerObj("unset", 2, Undef, Undef, Undef, {Undef})}}

NoMerge == [base |-> ResiliencePolicy(RetryUnset, BreakerUnset),
            override |-> ResiliencePolicy(RetryUnset, BreakerUnset),
            merged |-> ResiliencePolicy(RetryUnset, BreakerUnset)]

MergeInit ==
  /\ config \in {[resilience |-> p, responseInterceptors |-> <<>>] :
                   p \in BaseResiliencePolicies}
  /\ circuit = CircuitInit
  /\ now = 0
  /\ ticks = 0
  /\ calls = 0
  /\ call = IdleCall
  /\ result = NoMerge

\* A caller merges an override into the policy it holds.
Merge ==
  /\ calls < MaxCalls
  /\ \E override \in OverrideResiliencePolicies :
       LET merged == mergeResiliencePolicies(config.resilience, override)
       IN /\ result' = [base |-> config.resilience, override |-> override,
                        merged |-> merged]
          /\ config' = [config EXCEPT !.resilience = merged]
  /\ calls' = calls + 1
  /\ UNCHANGED <<circuit, now, ticks, call>>

MergeNext == Merge

MergeSpec == MergeInit /\ [][MergeNext]_vars

\* ---------------------------------------------------------------------
\* Methods whose handlers fail.
ThrowingMethods ==
  {Method(OnError(<<>>, <<404>>, "on404"),
          OnSuccess(<<>>, {200}, "throwsAxiosError"),
          ResponseInterceptor(<<>>, "stamp")),
   Method(OnError(<<>>, <<Null>>, "onAny"),
          OnSuccess(<<>>, {200}, "throwsError"),
          <<>>),
   Method(OnError(<<>>, <<Null>>, "throwsError"),
          <<>>,
          ResponseInterceptor(<<>>, "observe")),
   Method(OnError(OnError(<<>>, <<404>>, "throwsError"), <<503>>, "throwsAxiosError"),
          OnSuccess(<<>>, {200}, "throwsAxiosError"),
          <<>>)}

HandlerFailureConfigs ==
  {Config(RetryObj(1, {503}, "unset", "none"), BreakerFalse, <<>>),
   Config(RetryFalse, BreakerObj("true", 2, 2, 1, 2, {503}), <<"stamp", "observe">>)}

HandlerFailureInit ==
  /\ config \in HandlerFailureConfigs
  /\ circuit = CircuitInit
  /\ now = 0
  /\ ticks = 0
  /\ calls = 0
  /\ call = IdleCall
  /\ result = NoResult

\* A caller invokes a generated method whose handlers may fail.
HandlerFailureInvoke ==
  /\ call.pc \in {"idle", "done"}
  /\ calls < MaxCalls
  /\ \E m \in ThrowingMethods : call' = [IdleCall EXCEPT !.pc = "request", !.method = m]
  /\ calls' = calls + 1
  /\ result' = NoResult
  /\ UNCHANGED <<config, circuit, now, ticks>>

HandlerFailureNext ==
  \/ HandlerFailureInvoke
  \/ RequestInterceptors
  \/ Transport
  \/ RetryInterceptor
  \/ BreakerInterceptor
  \/ GlobalInterceptor
  \/ Settle
  \/ Tick

HandlerFailureSpec == HandlerFailureInit /\ [][HandlerFailureNext]_vars

\* ---------------------------------------------------------------------
\* Several services created from one configuration by the multi-service
\* overload, with several invocations in flight against them
\* (create-api-service.ts:62-69, 73-112, 135-177).

Services == {"users", "orders"}

\* createSingleService runs once per service and calls axios.create, so each
\* service dispatches through an axios instance of its own.
axiosInstanceShared(service) == "users"
axiosInstance(service) == service

\* `const requestHeaders = { ...headers }`: the invocation writes into a copy,
\* the service's header set is what it was.
headersAliased(staticHeaders, requestHeaders) == requestHeaders
headersAfterInvocation(staticHeaders, requestHeaders) == staticHeaders

ServicesEndpoint ==
  Endpoint(<<"/", "items", "/", "{", "id", "}">>,
           <<Param("path", "id", 1), Param("query", "q", 2), Param("header", "X-Trace", 3)>>)

ServicesArgLists == {<<Num(7), Undefined, Str(<<"t1">>)>>, <<Str(<<"a", " ", "b">>), Num(7)>>}

\* The configuration handed to createApiService, and the header set each
\* service made from it.
ServicesConfig ==
  [resilience |-> ResiliencePolicy(RetryFalse, BreakerObj("true", 2, 2, 1, 2, {503})),
   responseInterceptors |-> <<>>,
   headers |-> [NoHeaders EXCEPT !["Authorization"] = Present(<<"preset">>)],
   authorization |-> NoAuthorization, authorizationType |-> "unset"]

\* The locals of an invocation, requestHeaders being a copy of the service's
\* header set.
invocationLocals(staticHeaders, pathTemplate) ==
  [url |-> pathTemplate, queryParams |-> NoQuery, requestBody |-> Undefined,
   requestHeaders |-> staticHeaders]

\* pc: idle, request (about to pass the breaker's request interceptor),
\* transport (in flight), done.  outcome: none, circuitOpen (rejected by the
\* breaker), resolved, rejected.
IdleInvocation == [pc |-> "idle", service |-> "users", args |-> <<>>, request |-> NoRequest,
                   outcome |-> "none"]

InFlight == 1..MaxCalls
ServicesInvocations == MaxCalls + 1

\* result holds what the services observed: the header set of each service
\* and the times at which each instance's breaker counted a failure.
ServicesInit ==
  /\ config = ServicesConfig
  /\ circuit = [a \in Services |-> CircuitInit]
  /\ now = 0
  /\ ticks = 0
  /\ calls = 0
  /\ call = [i \in InFlight |-> IdleInvocation]
  /\ result = [headers |-> [s \in Services |-> headers(ServicesConfig)],
               failedAt |-> [a \in Services |-> <<>>]]

\* A caller invokes a method of one of the services: the request is built.
ServicesInvoke ==
  /\ calls < ServicesInvocations
  /\ \E i \in InFlight, s \in Services, args \in ServicesArgLists :
       /\ call[i].pc \in {"idle", "done"}
       /\ \A j \in InFlight : j < i => call[j].pc \notin {"idle", "done"}
       /\ LET locals == invocationLocals(result.headers[s], ServicesEndpoint.pathTemplate)
              request == bindParameters(locals, ServicesEndpoint.paramMetadata, args, 1)
          IN /\ call' = [call EXCEPT ![i] = [pc |-> "request", service |-> s, args |-> args,
                                             request |-> request, outcome |-> "none"]]
             /\ result' = [result EXCEPT !.headers[s] =
                             headersAfterInvocation(@, request.requestHeaders)]
  /\ calls' = calls + 1
  /\ UNCHANGED <<config, circuit, now, ticks>>

\* The breaker's request interceptor of the service's instance.
ServicesDispatch ==
  /\ \E i \in InFlight :
       /\ call[i].pc = "request"
       /\ LET a == axiosInstance(call[i].service)
              options == circuitBreakerOptions(breakerPolicy(config.resilience))
          IN IF cbRejects(options, circuit[a], now)
             THEN /\ call' = [call EXCEPT ![i].pc = "done", ![i].outcome = "circuitOpen"]
                  /\ UNCHANGED circuit
             ELSE /\ call' = [call EXCEPT ![i].pc = "transport"]
                  /\ circuit' = [circuit EXCEPT ![a] = cbOnRequest(options, @, now)]
  /\ UNCHANGED <<config, now, ticks, calls, result>>

\* The transport answers an invocation in flight and the breaker's response
\* interceptor records the outcome.
ServicesComplete ==
  /\ \E i \in InFlight, status \in {200, 503} :
       /\ call[i].pc = "transport"
       /\ LET a == axiosInstance(call[i].service)
              options == circuitBreakerOptions(breakerPolicy(config.resilience))
              outcome == TransportOutcome(status, 1)
              failed == ~outcome.ok /\ isFault(options, outcome.err)
              counted == failed /\ circuit[a].phase # "Open"
          IN /\ circuit' = [circuit EXCEPT ![a] = cbOnOutcome(options, @, now, failed)]
             /\ call' = [call EXCEPT ![i].pc = "done",
                           ![i].outcome = IF outcome.ok THEN "resolved" ELSE "rejected"]
             /\ result' = [result EXCEPT !.failedAt[a] =
                             IF counted THEN Append(@, now) ELSE @]
  /\ UNCHANGED <<config, now, ticks, calls>>

ServicesNext ==
  \/ ServicesInvoke
  \/ ServicesDispatch
  \/ ServicesComplete
  \/ Tick

ServicesSpec == ServicesInit /\ [][ServicesNext]_vars

\* ---------------------------------------------------------------------
\* Progress.  An invocation is one flow of control that suspends on the
\* authorization supplier, on the transport, on the retry delay and on each
\* interceptor and handler; when each of these settles the flow resumes, so
\* every step of an invocation under way is taken eventually.  Nothing
\* obliges a caller to invoke a method.
TerminationSpec ==
  /\ RequestInit
  /\ [][RequestNext]_vars
  /\ WF_vars(ResolveAuthorization)
  /\ WF_vars(RequestInterceptors)
  /\ WF_vars(Transport)
  /\ WF_vars(RetryInterceptor)
  /\ WF_vars(BreakerInterceptor)
  /\ WF_vars(GlobalInterceptor)
  /\ WF_vars(Settle)

\* ---------------------------------------------------------------------
\* C21: under exponential backoff without a custom delay function the delay
\* awaited before the first retry is retryDelay (100 when left out), and no
\* later delay is shorter.
C21_FirstDelayIsRetryDelay ==
  LET p == retryPolicy
      base == IF p.retryDelay = Undef THEN 100 ELSE p.retryDelay
      top == IF p.retryDelayMax = Undef THEN 2000 ELSE p.retryDelayMax
  IN /\ retryOn /\ p.retryDelayFn = "none"
     /\ p.exponentialBackoff.kind # "undefined" /\ p.exponentialBackoff.value > 1
     /\ base <= top
     /\ Len(call.delays) >= 1
     => /\ call.delays[1].delay = base
        /\ \A i \in 2..Len(call.delays) : call.delays[i].delay >= call.delays[i - 1].delay

\* C22 (as stated): whatever the retry policy, no delay awaited before a
\* retry exceeds retryDelayMax (2000 when left out).
C22_DelayNeverExceedsMax ==
  \A i \in 1..Len(call.delays) :
    call.delays[i].delay <= IF retryPolicy.retryDelayMax = Undef THEN 2000
                            ELSE retryPolicy.retryDelayMax

\* C22: for a retry policy without a custom delay function no delay awaited
\* before a retry exceeds retryDelayMax (2000 when left out); the result of a
\* custom delay function is awaited as it is.
C22_DelayCappedWithoutDelayFn ==
  /\ [](\A i \in 1..Len(call.delays) :
          retryPolicy.retryDelayFn = "none" =>
            call.delays[i].delay <= IF retryPolicy.retryDelayMax = Undef THEN 2000
                                    ELSE retryPolicy.retryDelayMax)
  /\ [][retrying /\ retryPolicy.retryDelayFn # "none" =>
          call'.delays[Len(call'.delays)].delay =
            customRetryDelayFn(retryPolicy.retryDelayFn, delayRetryCount(call.retryCount),
                               call.cur.err)]_vars

\* A retry waited exactly retryDelayMax, the backoff having grown past it.
C22_Witness ==
  /\ retryPolicy.retryDelayFn = "none" /\ retryPolicy.retryDelayMax = 300
  /\ retryPolicy.retryDelay = 100 /\ retryPolicy.exponentialBackoff = ExpBool(TRUE)
  /\ Len(call.delays) >= 2 /\ call.delays[2].retryCount = 2
  /\ call.delays[2].delay = 300
  /\ call.pc = "transport"

\* The bindings of a kind and name whose argument was supplied and defined.
definedBindings(type, name) ==
  {i \in DOMAIN call.endpoint.paramMetadata :
     LET param == call.endpoint.paramMetadata[i]
     IN /\ param.type = type /\ param.name = name
        /\ param.index <= Len(call.args)
        /\ call.args[param.index].kind # "undefined"}

undefinedBindings(type, name) ==
  {i \in DOMAIN call.endpoint.paramMetadata :
     LET param == call.endpoint.paramMetadata[i]
     IN /\ param.type = type /\ param.name = name
        /\ (param.index > Len(call.args) \/ call.args[param.index].kind = "undefined")}

\* The bindings of the invocation under way have been applied.
bound ==
  /\ call.pc # "idle"
  /\ call.steps # <<>> /\ call.steps[Len(call.steps)] = "bind"

PathNames == {"id", "item"}

\* C23: once the bindings are applied, the URL holds no {name} placeholder
\* of a path binding whose argument is defined, and still holds the
\* placeholder of a path binding whose argument is undefined.
C23_NoPlaceholderRemains ==
  bound =>
    \A name \in PathNames :
      /\ definedBindings("path", name) # {} =>
           indexOf(call.request.url, placeholder(name)) = 0
      /\ undefinedBindings("path", name) # {} =>
           indexOf(call.request.url, placeholder(name)) # 0

\* The value of the header a binding sets.
boundHeader(name) ==
  LET i == CHOOSE j \in definedBindings("header", name) : TRUE
  IN Present(String(call.args[call.endpoint.paramMetadata[i].index]))

\* The Authorization header before the bindings: the supplier's token, or
\* the static token, or the service header.
authorized ==
  IF config.authorization.kind = "function" /\ call.token.kind = "string"
     /\ call.token.chars # <<>>
  THEN Present(authorizationHeader(config.authorizationType, call.token.chars))
  ELSE IF config.authorization.kind = "string"
  THEN Present(authorizationHeader(config.authorizationType, config.authorization.value))
  ELSE config.headers["Authorization"]

\* C24: the headers of the outgoing request are the service headers and the
\* resolved authorization, each overridden by a header binding of its name
\* whose argument is defined; a header or query binding whose argument is
\* undefined adds nothing, a query binding whose argument is defined adds
\* its key with the argument.
C24_HeadersMerged ==
  bound =>
    /\ \A h \in HeaderNames :
         call.request.requestHeaders[h] =
           IF definedBindings("header", h) # {} THEN boundHeader(h)
           ELSE IF h = "Authorization" THEN authorized
           ELSE config.headers[h]
    /\ \A q \in QueryNames :
         /\ call.request.queryParams[q].present = (definedBindings("query", q) # {})
         /\ call.request.queryParams[q].present =>
              \E i \in definedBindings("query", q) :
                call.request.queryParams[q].value =
                  call.args[call.endpoint.paramMetadata[i].index]

\* A header binding replaced the supplier's Authorization header, another
\* header binding had no argument and left the service header, and the query
\* binding added its key.
C24_Witness ==
  /\ call.pc = "done"
  /\ config.authorization.kind = "function" /\ call.token = Str(<<"t1">>)
  /\ definedBindings("header", "Authorization") # {}
  /\ call.request.requestHeaders["Authorization"] = Present(<<"4", "2">>)
  /\ call.request.requestHeaders["X-Trace"] = Present(<<"static">>)
  /\ call.request.queryParams["q"] = [present |-> TRUE, value |-> Num(7)]

\* C25: the authorization supplier is invoked once per call, however many
\* attempts the call makes, and before the bindings are applied; when it
\* yields null, undefined or an empty string it adds no Authorization
\* header and the call goes on to the transport.
C25_AuthorizationOncePerCall ==
  LET dynamic == config.authorization.kind = "function"
      falsy == ~(call.token.kind = "string" /\ call.token.chars # <<>>)
  IN /\ call.authorizations <= 1
     /\ bound =>
          /\ call.authorizations = IF dynamic THEN 1 ELSE 0
          /\ call.steps = IF dynamic THEN <<"authorization", "bind">> ELSE <<"bind">>
     /\ bound /\ dynamic /\ falsy =>
          /\ call.request.requestHeaders["Authorization"] =
               IF definedBindings("header", "Authorization") # {}
               THEN boundHeader("Authorization")
               ELSE config.headers["Authorization"]
          /\ call.pc = "done" => call.transportCount >= 1 /\ result.kind # "none"

\* A call whose supplier yielded the empty string made two attempts with one
\* invocation of the supplier and no Authorization header.
C25_Witness ==
  /\ call.pc = "done" /\ config.authorization.kind = "function"
  /\ call.token = Str(<<>>) /\ call.authorizations = 1
  /\ call.transportCount = 2
  /\ ~call.request.requestHeaders["Authorization"].present

unsetOf(sub) == IF sub = "retry" THEN RetryUnset ELSE BreakerUnset

\* C26: each sub-policy of the merged policy is decided from the same
\* sub-policy of the base and of the override alone: false when the override
\* is false, the base's when the override leaves it out, and otherwise an
\* object holding the override's field where the override gives one and the
\* base's field where it does not.
C26_MergePerSubPolicy ==
  calls >= 1 =>
    \A sub \in {"retry", "circuitBreaker"} :
      LET b == result.base[sub]
          o == result.override[sub]
          merged == result.merged[sub]
      IN /\ o.kind = "false" => merged.kind = "false"
         /\ o.kind = "unset" => merged = b
         /\ o.kind = "object" =>
              /\ merged.kind = "object"
              /\ \A f \in DOMAIN o \ {"kind"} :
                   merged[f] = IF o[f] # unsetOf(sub)[f] THEN o[f]
                               ELSE IF b.kind = "object" THEN b[f]
                               ELSE unsetOf(sub)[f]

\* An override giving only `retries` was merged into the default retry
\* policy, and an override of false replaced the default breaker policy.
C26_Witness ==
  /\ calls >= 1
  /\ result.base = ResiliencePolicy(DEFAULT_RESILIENCE_POLICY.retry,
                                    DEFAULT_RESILIENCE_POLICY.circuitBreaker)
  /\ result.override = ResiliencePolicy(RetryObj(2, {Undef}, "unset", "none"), BreakerFalse)
  /\ result.merged.retry.retries = 2 /\ result.merged.retry.retryDelay = 100
  /\ result.merged.retry.retryableStatusCodes = {408, 429, 500, 502, 503, 504}
  /\ result.merged.circuitBreaker.kind = "false"

\* C27: when a call on which method-level interceptors ran fails with a
\* response and rejects, or is answered by an error handler, the failure carries the response the last
\* interceptor left, a replacement returned by a method-level interceptor
\* included; when it resolves on the success path, the value is the data of
\* the response the last interceptor left.
C27_NoInterceptorChangeLost ==
  call.pc = "done" /\ call.method.responseInterceptors # <<>> =>
    /\ ~call.cur.ok /\ call.cur.err.axios /\ call.cur.err.hasResp
       /\ result.via \in {"error", "throw"} =>
         /\ result.err.hasResp
         /\ result.err.resp = runRejected(call.method.responseInterceptors,
                                          responseToIntercept(call.cur.err)).resp
    /\ call.cur.ok => result.data = finalResponse.data

\* The handler the lookup selects for the settled dispatch: the success
\* handler matching the final status, or the error handler matching the
\* status the failure-path interceptors left; "none" when there is none.
selectedHandler ==
  IF call.cur.ok
  THEN LET i == findSuccessHandler(call.method.successHandlers, finalResponse.status)
       IN IF i = 0 THEN "none" ELSE call.method.successHandlers[i].handler
  ELSE IF call.cur.err.axios /\ ~methodLevelPromotion
  THEN LET i == findErrorHandler(call.method.errorHandlers, finalErrorStatus)
       IN IF i = 0 THEN "none" ELSE call.method.errorHandlers[i].handler
  ELSE "none"

\* C28: when the success handler or the error handler selected for a call
\* throws, the call rejects with what the handler threw, makes no further
\* attempt, and the method-level interceptors have run once, on the outcome
\* of the dispatch.
C28_HandlerFailurePropagates ==
  call.pc = "done" /\ selectedHandler \in ThrowingHandlers =>
    /\ result.kind = "rejected"
    /\ result.err = thrownBy(selectedHandler)
    /\ \A i \in 1..Len(call.trace) :
         call.trace[i].scope = "method" =>
           call.trace[i].path = IF call.cur.ok THEN "success" ELSE "failure"

\* C29: however many attempts a call makes, no registered interceptor,
\* global or method-level, is invoked more than once during the call.
C29_InterceptorOncePerCall ==
  \A i, j \in 1..Len(call.trace) :
    i # j => ~(/\ call.trace[i].scope = call.trace[j].scope
               /\ call.trace[i].index = call.trace[j].index)

\* The i-th interceptor call was made on the failure path and returned a
\* response with a 2xx status.
promotes(i) ==
  /\ call.trace[i].path = "failure"
  /\ LET returned == interceptorHandler(call.trace[i].ic, call.trace[i].input)
     IN returned.some /\ isSuccessStatusCode(returned.resp)

\* C30: once an interceptor on the failure path has returned a
\* 2xx response, no other interceptor, global or method-level, is invoked
\* for that call.
C30_NothingRunsAfterPromotion ==
  \A i \in 1..Len(call.trace) : promotes(i) => i = Len(call.trace)

\* C31: before the delay of each retry is awaited the retry hook registered
\* for the method is notified, with the number of the retry counted from 1
\* and the error of the attempt that just failed.
C31_MethodHookNotified ==
  /\ Len(call.notified) = Len(call.delays)
  /\ \A i \in 1..Len(call.notified) :
       /\ call.notified[i].receiver = "OnRetrying hook"
       /\ call.notified[i].retryCount = i
       /\ call.notified[i].error = i

\* C33: in every state, whatever the order in which the invocations in
\* flight complete and the windows are reset, no breaker has counted more
\* failures than requests.
C33_FailuresWithinRequests ==
  \A a \in Services : circuit[a].failureCount <= circuit[a].requestCount

\* Two invocations in flight at once completed, one failing, and the
\* breaker counted both.
C33_Witness ==
  /\ circuit["users"].requestCount = 2 /\ circuit["users"].failureCount = 1
  /\ \A i \in InFlight : call[i].pc = "done" /\ call[i].service = "users"
  /\ calls = 2

\* C34: a step changes the circuit state of a service only when it is a
\* step of an invocation of that service; the invocations, failures and
\* breaker transitions of one service leave the circuit state of the other
\* services as it was.
C34_CircuitPerService ==
  [][\A a \in Services :
       circuit'[a] # circuit[a] =>
         \E i \in InFlight : call'[i] # call[i] /\ call[i].service = a]_vars

\* The breaker of one service opened on two failures while the other
\* service, created from the same configuration, counted one success.
C34_Witness ==
  /\ circuit["users"].phase = "Open" /\ circuit["users"].failureCount = 2
  /\ circuit["orders"].phase = "Closed"
  /\ circuit["orders"].requestCount = 1 /\ circuit["orders"].failureCount = 0

\* The failures a breaker counted at or after the start of its window.
countedInWindow(a) ==
  Cardinality({k \in DOMAIN result.failedAt[a] :
                 result.failedAt[a][k] >= circuit[a].windowStart})

policyWindow ==
  IF config.resilience.circuitBreaker.window = Undef THEN 60000
  ELSE config.resilience.circuitBreaker.window

\* C35: a closed breaker counts the failures of its current window only: a
\* completion that comes once the policy's window has elapsed since
\* windowStart starts a new window at that time with the counters reset, a
\* completion before that is counted in the window that is running, and
\* failureCount is the number of failures recorded since windowStart.
C35_FailuresPerWindow ==
  /\ [](\A a \in Services :
          circuit[a].phase = "Closed" => circuit[a].failureCount = countedInWindow(a))
  /\ [][\A a \in Services :
          circuit[a].phase = "Closed" /\ circuit'[a] # circuit[a] =>
            IF now - circuit[a].windowStart >= policyWindow
            THEN /\ circuit'[a].windowStart = now
                 /\ circuit'[a].requestCount = 1
                 /\ circuit'[a].failureCount <= 1
            ELSE /\ circuit'[a].windowStart = circuit[a].windowStart
                 /\ circuit'[a].requestCount = circuit[a].requestCount + 1]_vars

\* A failure of an expired window and a failure of the current window: the
\* breaker counted the second only and stayed closed, though the threshold
\* is two.
C35_Witness ==
  /\ result.failedAt["users"] = <<0, 2>>
  /\ circuit["users"].phase = "Closed"
  /\ circuit["users"].windowStart = 2
  /\ circuit["users"].failureCount = 1 /\ circuit["users"].requestCount = 1

\* The retry policy has exponential backoff off and no delay function.
constantDelayPolicy ==
  /\ retryOn /\ retryPolicy.retryDelayFn = "none"
  /\ (retryPolicy.exponentialBackoff.kind = "undefined"
      \/ retryPolicy.exponentialBackoff.value = 0)

\* C36 (as stated): with exponential backoff off and no delay function,
\* every retry waits retryDelay (100 when left out), whatever retryDelayMax.
C36_ConstantBaseDelay ==
  constantDelayPolicy =>
    \A i \in 1..Len(call.delays) :
      call.delays[i].delay = IF retryPolicy.retryDelay = Undef THEN 100
                             ELSE retryPolicy.retryDelay

\* C36: with exponential backoff off and no delay function, every retry
\* waits the same delay, the smaller of retryDelay (100 when left out) and
\* retryDelayMax (2000 when left out).
C36_ConstantCappedDelay ==
  constantDelayPolicy =>
    \A i \in 1..Len(call.delays) :
      LET base == IF retryPolicy.retryDelay = Undef THEN 100 ELSE retryPolicy.retryDelay
          top == IF retryPolicy.retryDelayMax = Undef THEN 2000 ELSE retryPolicy.retryDelayMax
      IN call.delays[i].delay = IF base <= top THEN base ELSE top

\* Two retries under retryDelay 100 and retryDelayMax 50 with backoff off
\* waited 50 each.
C36_Witness ==
  /\ constantDelayPolicy
  /\ retryPolicy.retryDelay = 100 /\ retryPolicy.retryDelayMax = 50
  /\ Len(call.delays) = 2
  /\ call.delays[1].delay = 50 /\ call.delays[2].delay = 50

\* C37: the request of every invocation is the one built from its own
\* arguments and the header set the service was created with, whatever the
\* invocations made before it or in flight beside it bound; and the header
\* set of every service is the one it was created with.
C37_OwnRequestContext ==
  /\ \A i \in InFlight :
       call[i].pc # "idle" =>
         call[i].request = bindParameters(requestLocals(config, ServicesEndpoint.pathTemplate),
                                          ServicesEndpoint.paramMetadata, call[i].args, 1)
  /\ \A s \in Services : result.headers[s] = headers(config)

\* Two invocations of one service in flight together: the first bound an
\* X-Trace header and no query, the second a query and no X-Trace header.
C37_Witness ==
  /\ \A i \in InFlight : call[i].pc = "transport" /\ call[i].service = "users"
  /\ call[1].args = <<Num(7), Undefined, Str(<<"t1">>)>>
  /\ call[2].args = <<Str(<<"a", " ", "b">>), Num(7)>>
  /\ call[1].request.requestHeaders["X-Trace"] = Present(<<"t1">>)
  /\ ~call[2].request.requestHeaders["X-Trace"].present
  /\ call[2].request.queryParams["q"].present /\ ~call[1].request.queryParams["q"].present
  /\ call[2].request.url = <<"/", "items", "/", "a", "%20", "b">>

\* C38: every invocation under way eventually settles, resolved with a value
\* or rejected with a failure, and makes at most retries + 1 transport
\* attempts on the way.
C38_EventuallySettles ==
  /\ [](retryOn /\ retryPolicy.retries # Undef =>
          call.transportCount <= retryPolicy.retries + 1)
  /\ [](call.pc \notin {"idle", "done"} =>
          <>(call.pc = "done" /\ result.kind \in {"resolved", "rejected"}))

\* An invocation that awaited the supplier and used every attempt of its
\* retry policy settled with a rejection.
C38_Witness ==
  /\ call.pc = "done" /\ result.kind = "rejected"
  /\ call.authorizations = 1
  /\ call.transportCount = retryPolicy.retries + 1 /\ call.transportCount >= 2

\* C39: when the dispatch resolved and the response the interceptors leave
\* has a status outside 2xx, the call still resolves: no error handler is
\* invoked and no interceptor runs on the failure path for it; the value is
\* the result of a success handler registered for that status, or the
\* replacement's data when there is none.
C39_ReplacedStatusStaysSuccess ==
  call.pc = "done" /\ call.cur.ok /\ ~isSuccessStatusCode(finalResponse) =>
    /\ result.kind = "resolved"
    /\ result.via \in {"success", "raw"}
    /\ result.status = finalResponse.status
    /\ result.via = "success" =>
         finalResponse.status \in call.method.successHandlers[result.index].status
    /\ result.via = "raw" =>
         /\ result.data = finalResponse.data
         /\ \A i \in 1..Len(call.method.successHandlers) :
              finalResponse.status \notin call.method.successHandlers[i].status
    /\ \A i \in 1..Len(call.trace) :
         call.trace[i].scope = "method" => call.trace[i].path = "success"

\* A method-level interceptor replaced a 200 response by a 500 one, and the
\* success handler registered for 500 answered although the method has an
\* error handler.
C39_Witness ==
  /\ call.pc = "done" /\ call.cur.ok /\ call.cur.resp.status = 200
  /\ finalResponse.status = 500
  /\ call.method.errorHandlers # <<>>
  /\ result.via = "success" /\ result.handler = "on500"

\* C40: an invocation calls at most one handler: on the success path the
\* first success handler registered for the final status, on the failure
\* path the first error handler that matches; never two handlers.
C40_AtMostOneHandler ==
  call.pc = "done" =>
    /\ Len(result.invoked) <= 1
    /\ result.invoked = IF selectedHandler = "none" THEN <<>> ELSE <<selectedHandler>>

====
